---------------------------- MODULE Spec2Model ----------------------------
(***************************************************************************)
(* The event plugin pipeline of react-dom v16.3.0: the selection plugin    *)
(* (SelectEventPlugin.js), the classifier plugin (SimpleEventPlugin.js),   *)
(* the plugin registry as used by the injection modules, the synthetic     *)
(* event pool and the two-phase dispatch, and the test utilities that      *)
(* drive them (ReactTestUtils.js).                                         *)
(***************************************************************************)
EXTENDS Integers, Sequences, FiniteSets, TLC

(***************************************************************************)
(* JavaScript null for node- and instance-valued places.                   *)
(***************************************************************************)
Null == "null"

(***************************************************************************)
(* The DOM the selection plugin looks at.  E1 is a text input, E2 a        *)
(* contentEditable element, D a plain element.  An event's native target   *)
(* is one of these nodes, the window, the document, or an object with no   *)
(* ownerDocument.                                                          *)
(***************************************************************************)
Nodes == {"E1", "E2", "D"}
EventTargets == Nodes \cup {"window", "document", "orphan"}

\* The chain the dispatch is followed on: root -> A -> B, B a form control.
TreeNodes == {"root", "A", "B"}
AllNodes == Nodes \cup TreeNodes

nodeKind(node) ==
    CASE node = "E1" -> "textInput"
      [] node = "E2" -> "contentEditable"
      [] OTHER -> "other"

\* shared/isTextInputElement: inputs of a text type and textareas.
isTextInputElement(node) == nodeKind(node) \in {"textInput", "textarea"}

\* node.contentEditable === 'true'
contentEditable(node) == nodeKind(node) = "contentEditable"

\* ReactDOMComponentTree: the instance of a node and back.
InstOf(node) == IF node \in AllNodes THEN "inst" \o node ELSE Null

getNodeFromInstance(inst) ==
    CHOOSE n \in AllNodes : InstOf(n) = inst

\* The tree adapter's ancestor walk: the parent instance, or null at a root.
getParent(inst) ==
    CASE inst = InstOf("B") -> InstOf("A")
      [] inst = InstOf("A") -> InstOf("root")
      [] inst = InstOf("E1") -> InstOf("D")
      [] inst = InstOf("E2") -> InstOf("D")
      [] OTHER -> Null

\* The top-level types the plugins are fed with in this model.
SelectDependencies ==
    {"topBlur", "topContextMenu", "topFocus", "topKeyDown", "topKeyUp",
     "topMouseDown", "topMouseUp", "topSelectionChange"}

SelectTopLevelTypes == SelectDependencies \cup {"topClick", "topInput"}

\* The native event the host builds for a top-level type: its own type.
nativeTypeOf(topLevelType) ==
    CASE topLevelType = "topBlur" -> "blur"
      [] topLevelType = "topContextMenu" -> "contextmenu"
      [] topLevelType = "topFocus" -> "focus"
      [] topLevelType = "topKeyDown" -> "keydown"
      [] topLevelType = "topKeyUp" -> "keyup"
      [] topLevelType = "topMouseDown" -> "mousedown"
      [] topLevelType = "topMouseUp" -> "mouseup"
      [] topLevelType = "topSelectionChange" -> "selectionchange"
      [] topLevelType = "topInput" -> "input"
      [] topLevelType = "topCompositionEnd" -> "compositionend"
      [] OTHER -> "click"

(***************************************************************************)
(* Selection snapshots and other objects.  null and undefined are records  *)
(* of their own so that every object compares with every other.            *)
(***************************************************************************)
NullObject == [isNull |-> TRUE]
Undefined == [isUndefined |-> TRUE]

RangeValues == {[start |-> 0, end |-> 0], [start |-> 0, end |-> 1]}
WindowSelectionValues ==
    {[anchorNode |-> "E2", anchorOffset |-> 0, focusNode |-> "E2", focusOffset |-> o] :
        o \in {0, 1}}

VARIABLES
    activeElement,      \* SelectEventPlugin: the recorded focused element
    activeElementInst,  \* SelectEventPlugin: its instance
    lastSelection,      \* SelectEventPlugin: the last snapshot
    mouseDown,          \* SelectEventPlugin: the pointer is pressed
    platform,           \* "modern", "ie" (documentMode <= 11) or "legacy"
    docActiveElement,   \* document.activeElement
    inputSelection,     \* E1.selectionStart / E1.selectionEnd
    windowSelection,    \* window.getSelection()
    listening,          \* onSelect's dependencies are listened to on the document
    ret,                \* what the latest extractEvents call returned: <<>> or <<event>>
    trail,              \* the steps since the latest recorded focus-in
    press,              \* pointer-down / focus-out / pointer-up bookkeeping
    held,               \* the host delivered a pointer-down and neither a pointer-up
                        \* nor a context-menu since
    call,               \* the extractEvents call of the latest step: its top-level
                        \* type, whether its native target has a document and,
                        \* for a focus-in, the target itself; or NoCall
    ungated,            \* the state and the latest result of the selection plugin
                        \* run without its listener check on the same calls
    listeners,          \* the handlers present: <<instance, registration name>>
    disabled,           \* the instances that are disabled form controls
    walk,               \* findAllInRenderedFiberTreeInternal: the fiber tree, the
                        \* arguments, the locals and the nodes visited and tested
    args,               \* SimpleEventPlugin.extractEvents: the arguments of the call
    pc,                 \* SimpleEventPlugin.extractEvents: "ready", then "done"
    interactive,        \* what the latest isInteractiveTopLevelEventType call
                        \* returned, or Null
    registry,           \* EventPluginRegistry: order, plugins and the name tables
    Simulate,           \* ReactTestUtils.Simulate: its keys
    bundle,             \* the injection module loaded: "dom", "native" or "none"
    modulePc,           \* the injection module's next statement
    moduleCalls,        \* the injection calls the module has made
    lastCall,           \* the latest injection call, its outcome and the state before
    injectedOrders,     \* how many injectEventPluginOrder calls succeeded
    pool,               \* SyntheticEvent pooling: the free list of each shape
    queue,              \* the events of the batch being dispatched
    cur,                \* the listener to invoke next: event and chain entry
    native,             \* the native event (or simulation) dispatched, and the shapes
                        \* whose pooled instance it reuses
    acquired,           \* the events of the batch as extraction returned them
    invoked,            \* the listeners invoked for the batch so far
    released,           \* the events of the finished batch, before and after release
    persistCalls,       \* per event of the batch, the persist() calls made on it:
                        \* none, one, or two and more
    thrown,             \* the latest dispatch ended with a listener's exception,
                        \* which its caller received
    stack,              \* the batches whose running listener dispatched again,
                        \* innermost first
    host                \* the native events the host delivers in this run

selVars == <<activeElement, activeElementInst, lastSelection, mouseDown, platform,
             docActiveElement, inputSelection, windowSelection, listening, ret,
             trail, press, held, call, ungated>>

treeVars == <<listeners, disabled, walk>>

\* findAllInRenderedFiberTreeInternal is not being called.
NotWalking == [pc |-> "idle"]

clsVars == <<args, pc, interactive>>

regVars == <<registry, Simulate, bundle, modulePc, moduleCalls, lastCall, injectedOrders>>

dspVars ==
    <<pool, queue, cur, native, acquired, invoked, released, persistCalls, thrown,
      stack, host>>

vars == <<selVars, treeVars, clsVars, regVars, dspVars>>

\* The event shapes, each with its own pool.
Shapes ==
    {"SyntheticEvent", "SyntheticUIEvent", "SyntheticFocusEvent",
     "SyntheticMouseEvent", "SyntheticKeyboardEvent", "SyntheticDragEvent",
     "SyntheticTouchEvent", "SyntheticAnimationEvent", "SyntheticTransitionEvent",
     "SyntheticWheelEvent", "SyntheticClipboardEvent", "SyntheticCompositionEvent"}

emptyPools == [shape \in Shapes |-> <<>>]

NotDispatching == [event |-> 0, entry |-> 0]

\* The selection plugin's state and result before any call.
Untracked ==
    [activeElement |-> Null, activeElementInst |-> Null, lastSelection |-> NullObject,
     mouseDown |-> FALSE, ret |-> <<>>]

\* No native event has been dispatched.
DispatchIdle ==
    /\ pool = emptyPools
    /\ queue = <<>>
    /\ cur = NotDispatching
    /\ native = NullObject
    /\ acquired = <<>>
    /\ invoked = <<>>
    /\ released = <<>>
    /\ persistCalls = <<>>
    /\ thrown = FALSE
    /\ stack = <<>>
    /\ host = {}

\* EventPluginRegistry before anything is injected.
emptyRegistry ==
    [eventPluginOrder |-> <<>>, namesToPlugins |-> <<>>, plugins |-> <<>>,
     eventNameDispatchConfigs |-> <<>>, registrationNameModules |-> <<>>]

\* No injection call has been observed.
NoCall == [op |-> "none"]

\* Nothing is being injected.
RegistryIdle ==
    /\ registry = emptyRegistry
    /\ Simulate = {}
    /\ bundle = "none"
    /\ modulePc = 0
    /\ moduleCalls = <<>>
    /\ lastCall = NoCall
    /\ injectedOrders = 0

\* The classifier is not being called.
ClassifierIdle ==
    /\ args = NullObject
    /\ pc = "idle"
    /\ interactive = Null

\* SelectEventPlugin.js, lines 20-23.
skipSelectionChangeEvent == platform \in {"ie", "legacy"}

\* window.getSelection exists
hasWindowGetSelection == platform # "legacy"

\* fbjs/lib/getActiveElement
getActiveElement == docActiveElement

\* 'selectionStart' in node && ReactInputSelection.hasSelectionCapabilities(node)
hasSelectionStart(node) == nodeKind(node) \in {"textInput", "textarea"}

getSelection(node) ==
    IF hasSelectionStart(node)
    THEN [start |-> inputSelection.start, end |-> inputSelection.end]
    ELSE IF hasWindowGetSelection
         THEN [anchorNode |-> windowSelection.anchorNode,
               anchorOffset |-> windowSelection.anchorOffset,
               focusNode |-> windowSelection.focusNode,
               focusOffset |-> windowSelection.focusOffset]
         ELSE Undefined

\* fbjs/lib/shallowEqual: the same value, or two objects with the same keys
\* holding the same values.
isObject(x) == x \notin {NullObject, Undefined}

shallowEqual(a, b) ==
    IF a = b THEN TRUE
    ELSE IF ~isObject(a) \/ ~isObject(b) THEN FALSE
    ELSE /\ DOMAIN a = DOMAIN b
         /\ \A k \in DOMAIN a : a[k] = b[k]


(***************************************************************************)
(* Synthetic events.  An instance is a record; NativeEvent is the payload   *)
(* the host hands in (charCode -1: the payload has no charCode).            *)
(***************************************************************************)
NativeEvent(type, target) ==
    [type |-> type, target |-> target, button |-> 0, charCode |-> 0, keyCode |-> 0,
     data |-> Null, relatedTarget |-> Null]

\* SyntheticEvent.extend(Interface): the parent's declared fields and the new ones.
extend(Super, Interface) == Super \cup Interface

\* The extension fields a shape declares, each with the default null.
SyntheticUIEvent_Interface == {}
SyntheticCompositionEvent_Interface == extend({}, {"data"})
SyntheticFocusEvent_Interface == extend(SyntheticUIEvent_Interface, {"relatedTarget"})

Interface(shape) ==
    CASE shape = "SyntheticCompositionEvent" -> SyntheticCompositionEvent_Interface
      [] shape = "SyntheticFocusEvent" -> SyntheticFocusEvent_Interface
      [] OTHER -> {}

\* A fresh instance of a shape, every field at its default.  id tells the
\* instances of a shape apart: it is the object's identity, not a field.
New(shape) ==
    [shape |-> shape, dispatchConfig |-> NullObject, _targetInst |-> Null,
     nativeEvent |-> NullObject, type |-> Null, target |-> Null,
     currentTarget |-> Null, defaultPrevented |-> FALSE,
     propagationStopped |-> FALSE, persistent |-> FALSE, pooled |-> FALSE,
     _dispatchListeners |-> <<>>, ext |-> [f \in Interface(shape) |-> Null],
     adhoc |-> Null, id |-> 1]

\* The constructor, run on an instance: the base fields and the shape's
\* extension fields are set from the arguments; nothing else is touched.
SyntheticEvent(instance, dispatchConfig, targetInst, nativeEvent, nativeEventTarget) ==
    [instance EXCEPT
        !.dispatchConfig = dispatchConfig,
        !._targetInst = targetInst,
        !.nativeEvent = nativeEvent,
        !.type = nativeEvent.type,
        !.target = nativeEventTarget,
        !.currentTarget = Null,
        !.defaultPrevented = FALSE,
        !.propagationStopped = FALSE,
        !.persistent = FALSE,
        !._dispatchListeners = <<>>,
        !.ext = [f \in Interface(instance.shape) |-> nativeEvent[f]]]

\* The events in flight: those of the batch being dispatched and those of
\* the batches suspended under it.
inFlight ==
    {queue[i] : i \in DOMAIN queue}
        \cup UNION {{stack[n].queue[i] : i \in DOMAIN stack[n].queue} : n \in DOMAIN stack}

\* The identities of the pooled instances of a shape that are alive: in the
\* shape's pool or in flight.
liveIds(shape) ==
    {pool[shape][k].id : k \in DOMAIN pool[shape]}
        \cup {e.id : e \in {f \in inFlight : f.shape = shape /\ f.pooled}}

\* new EventConstructor(...): an object that is none of the live ones.
freshId(shape) ==
    CHOOSE n \in 1..(Cardinality(liveIds(shape)) + 1) :
        /\ n \notin liveIds(shape)
        /\ \A m \in 1..(n - 1) : m \in liveIds(shape)

\* EventConstructor.getPooled: the constructor run on the instance the
\* shape's pool hands out, or on a new one when the pool is empty.
getPooled(shape, dispatchConfig, targetInst, nativeEvent, nativeEventTarget) ==
    LET instance == IF pool[shape] # <<>>
                    THEN pool[shape][Len(pool[shape])]
                    ELSE [New(shape) EXCEPT !.id = freshId(shape)]
    IN [SyntheticEvent(instance, dispatchConfig, targetInst, nativeEvent,
                       nativeEventTarget) EXCEPT !.pooled = TRUE]

(***************************************************************************)
(* The propagation accumulator.                                            *)
(***************************************************************************)
RECURSIVE ancestors(_)
ancestors(inst) ==
    IF inst = Null THEN <<>> ELSE <<inst>> \o ancestors(getParent(inst))

Reverse(s) == [i \in 1..Len(s) |-> s[Len(s) + 1 - i]]

\* The registration names of the interaction family a disabled form control
\* does not receive in the bubble phase.
InteractionBubbleNames ==
    {"onClick", "onDoubleClick", "onMouseDown", "onMouseMove", "onMouseUp"}

getListener(inst, registrationName) ==
    /\ <<inst, registrationName>> \in listeners
    /\ ~(inst \in disabled /\ registrationName \in InteractionBubbleNames)

RECURSIVE chainOf(_, _, _)
chainOf(path, registrationName, phase) ==
    IF path = <<>> THEN <<>>
    ELSE (IF getListener(Head(path), registrationName)
          THEN <<[inst |-> Head(path), phase |-> phase, name |-> registrationName]>>
          ELSE <<>>) \o chainOf(Tail(path), registrationName, phase)

accumulateTwoPhaseDispatches(event) ==
    IF "phasedRegistrationNames" \in DOMAIN event.dispatchConfig
    THEN LET names == event.dispatchConfig.phasedRegistrationNames
             path == ancestors(event._targetInst)
         IN [event EXCEPT !._dispatchListeners =
                chainOf(Reverse(path), names.captured, "captured")
                \o chainOf(path, names.bubbled, "bubbled")]
    ELSE event

(***************************************************************************)
(* SelectEventPlugin.js                                                    *)
(***************************************************************************)
\* The list without the key-up.
SelectEventPlugin_eventTypes_WithoutKeyUp ==
    [select |->
        [phasedRegistrationNames |->
            [bubbled |-> "onSelect", captured |-> "onSelectCapture"],
         dependencies |->
            <<"topBlur", "topContextMenu", "topFocus", "topKeyDown",
              "topMouseDown", "topMouseUp", "topSelectionChange">>]]

\* Lines 25-42.
SelectEventPlugin_eventTypes ==
    [select |->
        [phasedRegistrationNames |->
            [bubbled |-> "onSelect", captured |-> "onSelectCapture"],
         dependencies |->
            <<"topBlur", "topContextMenu", "topFocus", "topKeyDown", "topKeyUp",
              "topMouseDown", "topMouseUp", "topSelectionChange">>]]

\* An object without ownerDocument is taken to belong to the document.
resolveDoc_AlwaysADocument(nativeEventTarget) == "document"

\* Lines 143-148: the document of the native target.
resolveDoc(nativeEventTarget) ==
    CASE nativeEventTarget = "window" -> "document"
      [] nativeEventTarget = "document" -> "document"
      [] nativeEventTarget = "orphan" -> Null
      [] OTHER -> "document"

\* ReactBrowserEventEmitter.isListeningToAllDependencies
isListeningToAllDependencies(registrationName, doc) == listening

\* Lines 102-114: the event, retargeted at the recorded element.
selectSyntheticEvent_KeepsNativeTarget(nativeEvent, nativeEventTarget) ==
    accumulateTwoPhaseDispatches(
        [getPooled("SyntheticEvent", SelectEventPlugin_eventTypes.select,
                   activeElementInst, nativeEvent, nativeEventTarget)
            EXCEPT !.type = "select"])

selectSyntheticEvent(nativeEvent, nativeEventTarget) ==
    accumulateTwoPhaseDispatches(
        [getPooled("SyntheticEvent", SelectEventPlugin_eventTypes.select,
                   activeElementInst, nativeEvent, nativeEventTarget)
            EXCEPT !.type = "select", !.target = activeElement])

\* The pressed flag is not looked at.
constructSelectEvent_IgnoresPressed(pressed, nativeEvent, nativeEventTarget) ==
    IF activeElement = Null \/ activeElement # getActiveElement
    THEN [event |-> <<>>, lastSelection |-> lastSelection]
    ELSE LET currentSelection == getSelection(activeElement)
         IN IF ~isObject(lastSelection)
               \/ ~shallowEqual(lastSelection, currentSelection)
            THEN [event |-> <<selectSyntheticEvent(nativeEvent, nativeEventTarget)>>,
                  lastSelection |-> currentSelection]
            ELSE [event |-> <<>>, lastSelection |-> lastSelection]

\* Lines 84-118, with the pressed flag as it is when the function is called:
\* the returned event (<<>> for null) and the snapshot left behind.
constructSelectEvent(pressed, nativeEvent, nativeEventTarget) ==
    IF pressed \/ activeElement = Null \/ activeElement # getActiveElement
    THEN [event |-> <<>>, lastSelection |-> lastSelection]
    ELSE LET currentSelection == getSelection(activeElement)
         IN IF ~isObject(lastSelection)
               \/ ~shallowEqual(lastSelection, currentSelection)
            THEN [event |-> <<selectSyntheticEvent(nativeEvent, nativeEventTarget)>>,
                  lastSelection |-> currentSelection]
            ELSE [event |-> <<>>, lastSelection |-> lastSelection]

\* Every element counts, text-editable or not.
isEditable_AnyElement(targetNode) == targetNode \in Nodes

\* Lines 159-168: topFocus.
isEditable(targetNode) ==
    isTextInputElement(targetNode) \/ contentEditable(targetNode)

focusState_KeepsSnapshot(targetNode, targetInst) ==
    IF isEditable(targetNode)
    THEN [activeElement |-> targetNode, activeElementInst |-> targetInst,
          lastSelection |-> lastSelection]
    ELSE [activeElement |-> activeElement, activeElementInst |-> activeElementInst,
          lastSelection |-> lastSelection]

focusState(targetNode, targetInst) ==
    IF isEditable(targetNode)
    THEN [activeElement |-> targetNode, activeElementInst |-> targetInst,
          lastSelection |-> NullObject]
    ELSE [activeElement |-> activeElement, activeElementInst |-> activeElementInst,
          lastSelection |-> lastSelection]

\* The snapshot outlives the focus-out.
blurState_KeepsSnapshot ==
    [activeElement |-> Null, activeElementInst |-> Null, lastSelection |-> lastSelection]

\* Lines 169-173: topBlur.
blurState_KeepsElement ==
    [activeElement |-> activeElement, activeElementInst |-> activeElementInst,
     lastSelection |-> NullObject]

blurState ==
    [activeElement |-> Null, activeElementInst |-> Null, lastSelection |-> NullObject]

\* Lines 137-203.
SelectEventPlugin_extractEvents(topLevelType, targetInst, nativeEvent, nativeEventTarget) ==
    LET doc == resolveDoc(nativeEventTarget)
        targetNode == IF targetInst # Null THEN getNodeFromInstance(targetInst)
                      ELSE "window"
        attempt(pressed) == constructSelectEvent(pressed, nativeEvent, nativeEventTarget)
    IN IF doc = Null \/ ~isListeningToAllDependencies("onSelect", doc)
       THEN /\ ret' = <<>>
            /\ UNCHANGED <<activeElement, activeElementInst, lastSelection, mouseDown>>
       ELSE CASE topLevelType = "topFocus" ->
                 /\ activeElement' = focusState(targetNode, targetInst).activeElement
                 /\ activeElementInst' = focusState(targetNode, targetInst).activeElementInst
                 /\ lastSelection' = focusState(targetNode, targetInst).lastSelection
                 /\ ret' = <<>>
                 /\ UNCHANGED mouseDown
              [] topLevelType = "topBlur" ->
                 /\ activeElement' = blurState.activeElement
                 /\ activeElementInst' = blurState.activeElementInst
                 /\ lastSelection' = blurState.lastSelection
                 /\ ret' = <<>>
                 /\ UNCHANGED mouseDown
              [] topLevelType = "topMouseDown" ->
                 /\ mouseDown' = TRUE
                 /\ ret' = <<>>
                 /\ UNCHANGED <<activeElement, activeElementInst, lastSelection>>
              [] topLevelType \in {"topContextMenu", "topMouseUp"} ->
                 /\ mouseDown' = FALSE
                 /\ ret' = attempt(FALSE).event
                 /\ lastSelection' = attempt(FALSE).lastSelection
                 /\ UNCHANGED <<activeElement, activeElementInst>>
              [] topLevelType = "topSelectionChange" /\ skipSelectionChangeEvent ->
                 /\ ret' = <<>>
                 /\ UNCHANGED <<activeElement, activeElementInst, lastSelection, mouseDown>>
              [] topLevelType \in {"topSelectionChange", "topKeyDown", "topKeyUp"}
                    /\ ~(topLevelType = "topSelectionChange" /\ skipSelectionChangeEvent) ->
                 /\ ret' = attempt(mouseDown).event
                 /\ lastSelection' = attempt(mouseDown).lastSelection
                 /\ UNCHANGED <<activeElement, activeElementInst, mouseDown>>
              [] OTHER ->
                 /\ ret' = <<>>
                 /\ UNCHANGED <<activeElement, activeElementInst, lastSelection, mouseDown>>


\* Lines 84-118 on the state s: the returned event and the snapshot.
constructSelectEventOn(s, pressed, nativeEvent, nativeEventTarget) ==
    IF pressed \/ s.activeElement = Null \/ s.activeElement # getActiveElement
    THEN [event |-> <<>>, lastSelection |-> s.lastSelection]
    ELSE LET currentSelection == getSelection(s.activeElement)
         IN IF ~isObject(s.lastSelection)
               \/ ~shallowEqual(s.lastSelection, currentSelection)
            THEN [event |-> <<accumulateTwoPhaseDispatches(
                                [getPooled("SyntheticEvent",
                                           SelectEventPlugin_eventTypes.select,
                                           s.activeElementInst, nativeEvent,
                                           nativeEventTarget)
                                    EXCEPT !.type = "select",
                                           !.target = s.activeElement])>>,
                  lastSelection |-> currentSelection]
            ELSE [event |-> <<>>, lastSelection |-> s.lastSelection]

\* Lines 137-203 without the isListeningToAllDependencies test of line 153,
\* as a function of the state s the plugin keeps: the state it leaves and
\* the event it returns.
extractEventsUngated(s, topLevelType, targetInst, nativeEvent, nativeEventTarget) ==
    LET doc == resolveDoc(nativeEventTarget)
        targetNode == IF targetInst # Null THEN getNodeFromInstance(targetInst)
                      ELSE "window"
        attempt(pressed) == constructSelectEventOn(s, pressed, nativeEvent,
                                                   nativeEventTarget)
    IN IF doc = Null THEN [s EXCEPT !.ret = <<>>]
       ELSE CASE topLevelType = "topFocus" ->
                 IF isEditable(targetNode)
                 THEN [s EXCEPT !.activeElement = targetNode,
                                !.activeElementInst = targetInst,
                                !.lastSelection = NullObject, !.ret = <<>>]
                 ELSE [s EXCEPT !.ret = <<>>]
              [] topLevelType = "topBlur" ->
                 [s EXCEPT !.activeElement = Null, !.activeElementInst = Null,
                           !.lastSelection = NullObject, !.ret = <<>>]
              [] topLevelType = "topMouseDown" ->
                 [s EXCEPT !.mouseDown = TRUE, !.ret = <<>>]
              [] topLevelType \in {"topContextMenu", "topMouseUp"} ->
                 [s EXCEPT !.mouseDown = FALSE, !.ret = attempt(FALSE).event,
                           !.lastSelection = attempt(FALSE).lastSelection]
              [] topLevelType \in {"topKeyDown", "topKeyUp"}
                    \/ (topLevelType = "topSelectionChange"
                           /\ ~skipSelectionChangeEvent) ->
                 [s EXCEPT !.ret = attempt(s.mouseDown).event,
                           !.lastSelection = attempt(s.mouseDown).lastSelection]
              [] OTHER -> [s EXCEPT !.ret = <<>>]


(***************************************************************************)
(* The selection plugin driven by every sequence of native events, with    *)
(* the platform changing the selection and the focus in between.           *)
(***************************************************************************)
MaxTrail == 4

notSelVars == <<treeVars, clsVars, regVars, dspVars>>

SelectInit ==
    /\ activeElement = Null
    /\ activeElementInst = Null
    /\ lastSelection = NullObject
    /\ mouseDown = FALSE
    /\ platform \in {"modern", "ie", "legacy"}
    /\ docActiveElement = "body"
    /\ inputSelection = [start |-> 0, end |-> 0]
    /\ windowSelection \in {w \in WindowSelectionValues : w.focusOffset = 0}
    /\ listening = FALSE
    /\ ret = <<>>
    /\ trail = <<>>
    /\ press = "idle"
    /\ held = FALSE
    /\ call = NoCall
    /\ ungated = Untracked
    /\ listeners = {}
    /\ disabled = {}
    /\ walk = NotWalking
    /\ ClassifierIdle
    /\ RegistryIdle
    /\ DispatchIdle

selectGate(nativeEventTarget) ==
    /\ resolveDoc(nativeEventTarget) # Null
    /\ isListeningToAllDependencies("onSelect", resolveDoc(nativeEventTarget))

\* The host hands a native event of type topLevelType on target to the plugin.
ExtractSelect(topLevelType, target) ==
    /\ SelectEventPlugin_extractEvents(topLevelType, InstOf(target),
            NativeEvent(nativeTypeOf(topLevelType), target), target)
    /\ trail' =
         IF selectGate(target) /\ topLevelType = "topFocus" /\ isEditable(target)
         THEN <<[op |-> "topFocus", node |-> target]>>
         ELSE IF /\ selectGate(target)
                 /\ topLevelType \in {"topMouseDown", "topMouseUp"}
                 /\ trail # <<>>
                 /\ Len(trail) < MaxTrail
              THEN Append(trail, [op |-> topLevelType, node |-> Null])
              ELSE <<>>
    /\ press' =
         CASE topLevelType = "topMouseDown" -> "down"
           [] topLevelType = "topBlur" /\ selectGate(target)
                 /\ press \in {"down", "downBlur"} -> "downBlur"
           [] topLevelType = "topFocus" ->
                 IF press \in {"down", "downBlur"} THEN "down" ELSE "idle"
           [] topLevelType = "topMouseUp" ->
                 IF press = "downBlur" THEN "upAfterBlur" ELSE "idle"
           [] OTHER -> IF press = "upAfterBlur" THEN "idle" ELSE press
    /\ held' =
         CASE topLevelType = "topMouseDown" -> TRUE
           [] topLevelType \in {"topMouseUp", "topContextMenu"} -> FALSE
           [] OTHER -> held
    /\ call' = [op |-> "extractEvents", topLevelType |-> topLevelType,
                hasDocument |-> target # "orphan",
                focusTarget |-> IF topLevelType = "topFocus" THEN target ELSE Null]
    /\ UNCHANGED <<platform, docActiveElement, inputSelection, windowSelection,
                   listening, ungated>>
    /\ UNCHANGED notSelVars

\* The user changes the selection of the text input.
ChangeInputSelection(v) ==
    /\ v # inputSelection
    /\ inputSelection' = v
    /\ trail' = IF trail # <<>> /\ Len(trail) < MaxTrail /\ activeElement = "E1"
                THEN Append(trail, [op |-> "selectionChanged", node |-> "E1"])
                ELSE <<>>
    /\ UNCHANGED <<activeElement, activeElementInst, lastSelection, mouseDown,
                   platform, docActiveElement, windowSelection, listening, ret, press,
                   held>>
    /\ call' = NoCall
    /\ UNCHANGED ungated
    /\ UNCHANGED notSelVars

\* The user changes the window's selection (inside the contentEditable element).
ChangeWindowSelection(v) ==
    /\ v # windowSelection
    /\ windowSelection' = v
    /\ trail' = IF trail # <<>> /\ Len(trail) < MaxTrail /\ activeElement = "E2"
                   /\ hasWindowGetSelection
                THEN Append(trail, [op |-> "selectionChanged", node |-> "E2"])
                ELSE <<>>
    /\ UNCHANGED <<activeElement, activeElementInst, lastSelection, mouseDown,
                   platform, docActiveElement, inputSelection, listening, ret, press,
                   held>>
    /\ call' = NoCall
    /\ UNCHANGED ungated
    /\ UNCHANGED notSelVars

\* The platform moves the focus.
PlatformFocus(node) ==
    /\ node # docActiveElement
    /\ docActiveElement' = node
    /\ trail' = <<>>
    /\ UNCHANGED <<activeElement, activeElementInst, lastSelection, mouseDown,
                   platform, inputSelection, windowSelection, listening, ret, press,
                   held>>
    /\ call' = NoCall
    /\ UNCHANGED ungated
    /\ UNCHANGED notSelVars

\* A component with an onSelect handler is mounted: the document listens.
ListenTo ==
    /\ ~listening
    /\ listening' = TRUE
    /\ trail' = <<>>
    /\ UNCHANGED <<activeElement, activeElementInst, lastSelection, mouseDown,
                   platform, docActiveElement, inputSelection, windowSelection, ret,
                   press, held>>
    /\ call' = NoCall
    /\ UNCHANGED ungated
    /\ UNCHANGED notSelVars

SelectNext ==
    \/ \E topLevelType \in SelectTopLevelTypes, target \in EventTargets :
          ExtractSelect(topLevelType, target)
    \/ \E v \in RangeValues : ChangeInputSelection(v)
    \/ \E v \in WindowSelectionValues : ChangeWindowSelection(v)
    \/ \E node \in {"E1", "E2", "body"} : PlatformFocus(node)
    \/ ListenTo

SpecSelect == SelectInit /\ [][SelectNext]_vars

\* The host hands the native event to the plugin and to the plugin without
\* the listener check.
ExtractBoth(topLevelType, target) ==
    /\ SelectEventPlugin_extractEvents(topLevelType, InstOf(target),
            NativeEvent(nativeTypeOf(topLevelType), target), target)
    /\ ungated' = extractEventsUngated(ungated, topLevelType, InstOf(target),
            NativeEvent(nativeTypeOf(topLevelType), target), target)
    /\ call' = [op |-> "extractEvents", topLevelType |-> topLevelType,
                hasDocument |-> target # "orphan", focusTarget |-> Null]
    /\ UNCHANGED <<platform, docActiveElement, inputSelection, windowSelection,
                   listening, trail, press, held>>
    /\ UNCHANGED notSelVars

GateNext ==
    \/ \E topLevelType \in SelectTopLevelTypes, target \in EventTargets :
          ExtractBoth(topLevelType, target)
    \/ \E v \in RangeValues : ChangeInputSelection(v)
    \/ \E v \in WindowSelectionValues : ChangeWindowSelection(v)
    \/ \E node \in {"E1", "E2", "body"} : PlatformFocus(node)
    \/ ListenTo

\* The plugin and the plugin without the listener check, side by side, from
\* a document that does not listen yet.
SpecGate == SelectInit /\ [][GateNext]_vars


(***************************************************************************)
(* Claims on the selection plugin.                                         *)
(***************************************************************************)
FocusIn(E) == [op |-> "topFocus", node |-> E]
PointerDown == [op |-> "topMouseDown", node |-> Null]
PointerUp == [op |-> "topMouseUp", node |-> Null]
SelectionChanged(E) == [op |-> "selectionChanged", node |-> E]

IsSelectEventFor(events, E) ==
    /\ Len(events) = 1
    /\ events[1].type = "select"
    /\ events[1].target = E
    /\ events[1]._targetInst = InstOf(E)
    /\ events[1].dispatchConfig = SelectEventPlugin_eventTypes.select

\* C1: with an onSelect listener present, after focus-in on a text-editable
\* element E, pointer-down, a change of E's selection and pointer-up with E
\* still the platform's active element, the pointer-up call returns one event
\* of type select whose target and target instance are E, whatever the native
\* event's own target; the focus-in and pointer-down calls return no event.
C1_SelectAfterSelectionChange ==
    \A E \in {"E1", "E2"} :
        /\ trail \in {<<FocusIn(E)>>, <<FocusIn(E), PointerDown>>,
                      <<FocusIn(E), PointerDown, SelectionChanged(E)>>}
              => ret = <<>>
        /\ (/\ trail = <<FocusIn(E), PointerDown, SelectionChanged(E), PointerUp>>
            /\ docActiveElement = E)
              => IsSelectEventFor(ret, E)

C1_Witness ==
    /\ trail = <<FocusIn("E1"), PointerDown, SelectionChanged("E1"), PointerUp>>
    /\ docActiveElement = "E1"
    /\ Len(ret) = 1
    /\ ret[1].nativeEvent.target = "D"

\* C2 as stated: for focus-in on a text field, pointer-down, pointer-up, the
\* field's selection the same at all three moments, none of the three calls
\* returns a select event.
C2_NoEventWhenSelectionUnchanged ==
    \A E \in {"E1", "E2"} :
        trail \in {<<FocusIn(E)>>, <<FocusIn(E), PointerDown>>,
                   <<FocusIn(E), PointerDown, PointerUp>>}
           => ret = <<>>

\* C2, amended: in that sequence the focus-in and pointer-down calls return no
\* event, and the pointer-up call returns one select event targeted at the
\* field exactly when the field is the platform's active element: focus-in
\* cleared the last snapshot, so the first check after it counts as a change.
C2_FirstPointerUpAfterFocusIn ==
    \A E \in {"E1", "E2"} :
        /\ trail \in {<<FocusIn(E)>>, <<FocusIn(E), PointerDown>>} => ret = <<>>
        /\ trail = <<FocusIn(E), PointerDown, PointerUp>>
              => /\ (ret # <<>>) <=> (docActiveElement = E)
                 /\ ret # <<>> => IsSelectEventFor(ret, E)

C2_Witness ==
    /\ trail = <<FocusIn("E1"), PointerDown, PointerUp>>
    /\ docActiveElement = "E1"
    /\ lastSelection = [start |-> 0, end |-> 1]
    /\ ret # <<>>

\* C3: when a focus-out has been processed after a pointer-down, with no
\* focus-in since, the pointer-up call returns no select event, whether or
\* not the selection changed in the meantime.
C3_NoEventAfterFocusOut ==
    press = "upAfterBlur" => ret = <<>>

C3_Witness ==
    /\ press = "upAfterBlur"
    /\ listening
    /\ docActiveElement = "E1"
    /\ inputSelection = [start |-> 0, end |-> 1]
    /\ ~mouseDown


(***************************************************************************)
(* SimpleEventPlugin.js (the classifier).  An event name is spelled as the *)
(* sequence of its characters, so that capitalising it is a computation.   *)
(***************************************************************************)
interactiveEventTypeNames ==
    <<<<"b", "l", "u", "r">>,
      <<"c", "a", "n", "c", "e", "l">>,
      <<"c", "l", "i", "c", "k">>,
      <<"c", "l", "o", "s", "e">>,
      <<"c", "o", "n", "t", "e", "x", "t", "M", "e", "n", "u">>,
      <<"c", "o", "p", "y">>,
      <<"c", "u", "t">>,
      <<"d", "o", "u", "b", "l", "e", "C", "l", "i", "c", "k">>,
      <<"d", "r", "a", "g", "E", "n", "d">>,
      <<"d", "r", "a", "g", "S", "t", "a", "r", "t">>,
      <<"d", "r", "o", "p">>,
      <<"f", "o", "c", "u", "s">>,
      <<"i", "n", "p", "u", "t">>,
      <<"i", "n", "v", "a", "l", "i", "d">>,
      <<"k", "e", "y", "D", "o", "w", "n">>,
      <<"k", "e", "y", "P", "r", "e", "s", "s">>,
      <<"k", "e", "y", "U", "p">>,
      <<"m", "o", "u", "s", "e", "D", "o", "w", "n">>,
      <<"m", "o", "u", "s", "e", "U", "p">>,
      <<"p", "a", "s", "t", "e">>,
      <<"p", "a", "u", "s", "e">>,
      <<"p", "l", "a", "y">>,
      <<"r", "a", "t", "e", "C", "h", "a", "n", "g", "e">>,
      <<"r", "e", "s", "e", "t">>,
      <<"s", "e", "e", "k", "e", "d">>,
      <<"s", "u", "b", "m", "i", "t">>,
      <<"t", "o", "u", "c", "h", "C", "a", "n", "c", "e", "l">>,
      <<"t", "o", "u", "c", "h", "E", "n", "d">>,
      <<"t", "o", "u", "c", "h", "S", "t", "a", "r", "t">>,
      <<"v", "o", "l", "u", "m", "e", "C", "h", "a", "n", "g", "e">>>>

nonInteractiveEventTypeNames ==
    <<<<"a", "b", "o", "r", "t">>,
      <<"a", "n", "i", "m", "a", "t", "i", "o", "n", "E", "n", "d">>,
      <<"a", "n", "i", "m", "a", "t", "i", "o", "n", "I", "t", "e", "r", "a", "t", "i", "o", "n">>,
      <<"a", "n", "i", "m", "a", "t", "i", "o", "n", "S", "t", "a", "r", "t">>,
      <<"c", "a", "n", "P", "l", "a", "y">>,
      <<"c", "a", "n", "P", "l", "a", "y", "T", "h", "r", "o", "u", "g", "h">>,
      <<"d", "r", "a", "g">>,
      <<"d", "r", "a", "g", "E", "n", "t", "e", "r">>,
      <<"d", "r", "a", "g", "E", "x", "i", "t">>,
      <<"d", "r", "a", "g", "L", "e", "a", "v", "e">>,
      <<"d", "r", "a", "g", "O", "v", "e", "r">>,
      <<"d", "u", "r", "a", "t", "i", "o", "n", "C", "h", "a", "n", "g", "e">>,
      <<"e", "m", "p", "t", "i", "e", "d">>,
      <<"e", "n", "c", "r", "y", "p", "t", "e", "d">>,
      <<"e", "n", "d", "e", "d">>,
      <<"e", "r", "r", "o", "r">>,
      <<"l", "o", "a", "d">>,
      <<"l", "o", "a", "d", "e", "d", "D", "a", "t", "a">>,
      <<"l", "o", "a", "d", "e", "d", "M", "e", "t", "a", "d", "a", "t", "a">>,
      <<"l", "o", "a", "d", "S", "t", "a", "r", "t">>,
      <<"m", "o", "u", "s", "e", "M", "o", "v", "e">>,
      <<"m", "o", "u", "s", "e", "O", "u", "t">>,
      <<"m", "o", "u", "s", "e", "O", "v", "e", "r">>,
      <<"p", "l", "a", "y", "i", "n", "g">>,
      <<"p", "r", "o", "g", "r", "e", "s", "s">>,
      <<"s", "c", "r", "o", "l", "l">>,
      <<"s", "e", "e", "k", "i", "n", "g">>,
      <<"s", "t", "a", "l", "l", "e", "d">>,
      <<"s", "u", "s", "p", "e", "n", "d">>,
      <<"t", "i", "m", "e", "U", "p", "d", "a", "t", "e">>,
      <<"t", "o", "g", "g", "l", "e">>,
      <<"t", "o", "u", "c", "h", "M", "o", "v", "e">>,
      <<"t", "r", "a", "n", "s", "i", "t", "i", "o", "n", "E", "n", "d">>,
      <<"w", "a", "i", "t", "i", "n", "g">>,
      <<"w", "h", "e", "e", "l">>>>

knownHTMLTopLevelTypes ==
    <<"topAbort",
      "topCancel",
      "topCanPlay",
      "topCanPlayThrough",
      "topClose",
      "topDurationChange",
      "topEmptied",
      "topEncrypted",
      "topEnded",
      "topError",
      "topInput",
      "topInvalid",
      "topLoad",
      "topLoadedData",
      "topLoadedMetadata",
      "topLoadStart",
      "topPause",
      "topPlay",
      "topPlaying",
      "topProgress",
      "topRateChange",
      "topReset",
      "topSeeked",
      "topSeeking",
      "topStalled",
      "topSubmit",
      "topSuspend",
      "topTimeUpdate",
      "topToggle",
      "topVolumeChange",
      "topWaiting">>

toUpperCase(ch) ==
    CASE ch = "a" -> "A"
      [] ch = "b" -> "B"
      [] ch = "c" -> "C"
      [] ch = "d" -> "D"
      [] ch = "e" -> "E"
      [] ch = "f" -> "F"
      [] ch = "g" -> "G"
      [] ch = "h" -> "H"
      [] ch = "i" -> "I"
      [] ch = "j" -> "J"
      [] ch = "k" -> "K"
      [] ch = "l" -> "L"
      [] ch = "m" -> "M"
      [] ch = "n" -> "N"
      [] ch = "o" -> "O"
      [] ch = "p" -> "P"
      [] ch = "q" -> "Q"
      [] ch = "r" -> "R"
      [] ch = "s" -> "S"
      [] ch = "t" -> "T"
      [] ch = "u" -> "U"
      [] ch = "v" -> "V"
      [] ch = "w" -> "W"
      [] ch = "x" -> "X"
      [] ch = "y" -> "Y"
      [] ch = "z" -> "Z"
      [] OTHER -> ch

RECURSIVE text(_)
text(chars) == IF chars = <<>> THEN "" ELSE Head(chars) \o text(Tail(chars))

\* The capture name is built from the event name as it is written, not
\* from the capitalised one.
addEventTypeNameToConfig_CaptureUncapitalized(event, isInteractive) ==
    LET capitalizedEvent == <<toUpperCase(event[1])>> \o Tail(event)
        onEvent == "on" \o text(capitalizedEvent)
        topEvent == "top" \o text(capitalizedEvent)
        type == [phasedRegistrationNames |->
                    [bubbled |-> onEvent, captured |-> "on" \o text(event) \o "Capture"],
                 dependencies |-> <<topEvent>>,
                 isInteractive |-> isInteractive]
    IN [event |-> text(event), topEvent |-> topEvent, type |-> type]

\* Lines 127-142: the config of one event name, with the two keys it is
\* stored under.
addEventTypeNameToConfig(event, isInteractive) ==
    LET capitalizedEvent == <<toUpperCase(event[1])>> \o Tail(event)
        onEvent == "on" \o text(capitalizedEvent)
        topEvent == "top" \o text(capitalizedEvent)
        type == [phasedRegistrationNames |->
                    [bubbled |-> onEvent, captured |-> onEvent \o "Capture"],
                 dependencies |-> <<topEvent>>,
                 isInteractive |-> isInteractive]
    IN [event |-> text(event), topEvent |-> topEvent, type |-> type]

\* Lines 144-149: the calls made by the two forEach loops, in order.
simpleAssignments ==
    [i \in 1..(Len(interactiveEventTypeNames) + Len(nonInteractiveEventTypeNames)) |->
        IF i <= Len(interactiveEventTypeNames)
        THEN addEventTypeNameToConfig(interactiveEventTypeNames[i], TRUE)
        ELSE addEventTypeNameToConfig(
                nonInteractiveEventTypeNames[i - Len(interactiveEventTypeNames)], FALSE)]

\* The last assignment to a key is the one that stays.
lastAssignment(key, field) ==
    LET at == {i \in DOMAIN simpleAssignments : simpleAssignments[i][field] = key}
    IN simpleAssignments[CHOOSE i \in at : \A j \in at : j <= i]

\* Lines 122-149: the two tables once the module is loaded.
simpleTables ==
    [eventTypes |->
        [name \in {simpleAssignments[i].event : i \in DOMAIN simpleAssignments} |->
            lastAssignment(name, "event").type],
     topLevelEventsToDispatchConfig |->
        [top \in {simpleAssignments[i].topEvent : i \in DOMAIN simpleAssignments} |->
            lastAssignment(top, "topEvent").type]]

SimpleEventPlugin_eventTypes == simpleTables.eventTypes

topLevelEventsToDispatchConfig == simpleTables.topLevelEventsToDispatchConfig

\* Every type with a config counts as interactive.
isInteractiveTopLevelEventType_AnyConfig(topLevelType) ==
    topLevelType \in DOMAIN topLevelEventsToDispatchConfig

\* Lines 189-192.
isInteractiveTopLevelEventType(topLevelType) ==
    /\ topLevelType \in DOMAIN topLevelEventsToDispatchConfig
    /\ topLevelEventsToDispatchConfig[topLevelType].isInteractive = TRUE

\* getEventCharCode: the character code decoded from a keyboard payload;
\* 0 for a key that prints nothing.
getEventCharCode(nativeEvent) ==
    LET keyCode == nativeEvent.keyCode
        charCode == IF nativeEvent.charCode # -1
                    THEN (IF nativeEvent.charCode = 0 /\ keyCode = 13
                          THEN 13 ELSE nativeEvent.charCode)
                    ELSE keyCode
    IN IF charCode >= 32 \/ charCode = 13 THEN charCode ELSE 0

\* Lines 206-212: the key-press filter.
discardedKeyPress_AnyKeyKind(topLevelType, nativeEvent) ==
    /\ topLevelType \in {"topKeyPress", "topKeyDown", "topKeyUp"}
    /\ getEventCharCode(nativeEvent) = 0

discardedKeyPress(topLevelType, nativeEvent) ==
    /\ topLevelType = "topKeyPress"
    /\ getEventCharCode(nativeEvent) = 0

\* Lines 222-227: the right-button filter.
discardedClick_MiddleButton(topLevelType, nativeEvent) ==
    /\ topLevelType = "topClick"
    /\ nativeEvent.button = 1

\* The right button is filtered for every mouse kind.
discardedClick_AnyMouseKind(topLevelType, nativeEvent) ==
    /\ topLevelType \in {"topClick", "topDoubleClick", "topMouseDown", "topMouseMove",
                          "topMouseUp", "topMouseOut", "topMouseOver", "topContextMenu"}
    /\ nativeEvent.button = 2

discardedClick(topLevelType, nativeEvent) ==
    /\ topLevelType = "topClick"
    /\ nativeEvent.button = 2

\* The switch has no default case: a type it has no case for gets the
\* shape of the case before.
EventConstructor_NoDefault(topLevelType) ==
    CASE topLevelType \in {"topKeyPress", "topKeyDown", "topKeyUp"} ->
            "SyntheticKeyboardEvent"
      [] topLevelType \in {"topBlur", "topFocus"} -> "SyntheticFocusEvent"
      [] topLevelType \in {"topClick", "topDoubleClick", "topMouseDown",
                           "topMouseMove", "topMouseUp", "topMouseOut",
                           "topMouseOver", "topContextMenu"} ->
            "SyntheticMouseEvent"
      [] topLevelType \in {"topDrag", "topDragEnd", "topDragEnter", "topDragExit",
                           "topDragLeave", "topDragOver", "topDragStart",
                           "topDrop"} ->
            "SyntheticDragEvent"
      [] topLevelType \in {"topTouchCancel", "topTouchEnd", "topTouchMove",
                           "topTouchStart"} ->
            "SyntheticTouchEvent"
      [] topLevelType \in {"topAnimationEnd", "topAnimationIteration",
                           "topAnimationStart"} ->
            "SyntheticAnimationEvent"
      [] topLevelType = "topTransitionEnd" -> "SyntheticTransitionEvent"
      [] topLevelType = "topScroll" -> "SyntheticUIEvent"
      [] topLevelType = "topWheel" -> "SyntheticWheelEvent"
      [] OTHER -> "SyntheticClipboardEvent"

\* Lines 205-290: the shape chosen by the switch.
EventConstructor(topLevelType) ==
    CASE topLevelType \in {"topKeyPress", "topKeyDown", "topKeyUp"} ->
            "SyntheticKeyboardEvent"
      [] topLevelType \in {"topBlur", "topFocus"} -> "SyntheticFocusEvent"
      [] topLevelType \in {"topClick", "topDoubleClick", "topMouseDown",
                           "topMouseMove", "topMouseUp", "topMouseOut",
                           "topMouseOver", "topContextMenu"} ->
            "SyntheticMouseEvent"
      [] topLevelType \in {"topDrag", "topDragEnd", "topDragEnter", "topDragExit",
                           "topDragLeave", "topDragOver", "topDragStart",
                           "topDrop"} ->
            "SyntheticDragEvent"
      [] topLevelType \in {"topTouchCancel", "topTouchEnd", "topTouchMove",
                           "topTouchStart"} ->
            "SyntheticTouchEvent"
      [] topLevelType \in {"topAnimationEnd", "topAnimationIteration",
                           "topAnimationStart"} ->
            "SyntheticAnimationEvent"
      [] topLevelType = "topTransitionEnd" -> "SyntheticTransitionEvent"
      [] topLevelType = "topScroll" -> "SyntheticUIEvent"
      [] topLevelType = "topWheel" -> "SyntheticWheelEvent"
      [] topLevelType \in {"topCopy", "topCut", "topPaste"} ->
            "SyntheticClipboardEvent"
      [] OTHER -> "SyntheticEvent"

\* The event is returned without its listeners being accumulated.
SimpleEventPlugin_extractEvents_NoAccumulate(topLevelType, targetInst, nativeEvent, nativeEventTarget) ==
    IF topLevelType \notin DOMAIN topLevelEventsToDispatchConfig
    THEN <<>>
    ELSE IF discardedKeyPress(topLevelType, nativeEvent)
            \/ discardedClick(topLevelType, nativeEvent)
    THEN <<>>
    ELSE <<getPooled(EventConstructor(topLevelType),
                     topLevelEventsToDispatchConfig[topLevelType],
                     targetInst, nativeEvent, nativeEventTarget)>>

\* Lines 194-299: <<>> for null, or the one event.
SimpleEventPlugin_extractEvents(topLevelType, targetInst, nativeEvent, nativeEventTarget) ==
    IF topLevelType \notin DOMAIN topLevelEventsToDispatchConfig
    THEN <<>>
    ELSE IF discardedKeyPress(topLevelType, nativeEvent)
            \/ discardedClick(topLevelType, nativeEvent)
    THEN <<>>
    ELSE <<accumulateTwoPhaseDispatches(
              getPooled(EventConstructor(topLevelType),
                        topLevelEventsToDispatchConfig[topLevelType],
                        targetInst, nativeEvent, nativeEventTarget))>>

(***************************************************************************)
(* The classifier applied to one native event drawn from every top-level   *)
(* type it has a config for, some it has none for, and a range of payloads.*)
(***************************************************************************)
SimpleTopLevelTypes ==
    DOMAIN topLevelEventsToDispatchConfig
        \cup {"topSelectionChange", "topCompositionEnd", "topChange"}

SimpleNativeEvents(topLevelType, target) ==
    {[type |-> topLevelType, target |-> target, button |-> b, charCode |-> c,
      keyCode |-> k, data |-> Null, relatedTarget |-> r] :
        b \in {0, 1, 2}, c \in {-1, 0, 13, 97}, k \in {0, 9, 13, 97},
        r \in {Null, "A"}}

ClickListeners ==
    {InstOf("root"), InstOf("A"), InstOf("B")}
        \X {"onClick", "onClickCapture", "onKeyDown", "onKeyPress", "onFocusCapture"}

SelectIdle ==
    /\ activeElement = Null
    /\ activeElementInst = Null
    /\ lastSelection = NullObject
    /\ mouseDown = FALSE
    /\ platform = "modern"
    /\ docActiveElement = "body"
    /\ inputSelection = [start |-> 0, end |-> 0]
    /\ windowSelection = [anchorNode |-> "E2", anchorOffset |-> 0,
                          focusNode |-> "E2", focusOffset |-> 0]
    /\ listening = FALSE
    /\ trail = <<>>
    /\ press = "idle"
    /\ held = FALSE
    /\ call = NoCall
    /\ ungated = Untracked

selVarsButRet ==
    <<activeElement, activeElementInst, lastSelection, mouseDown, platform,
      docActiveElement, inputSelection, windowSelection, listening, trail, press,
      held, call, ungated>>

SimpleInit ==
    /\ \E topLevelType \in SimpleTopLevelTypes, target \in {"B", "root"} :
         \E nativeEvent \in SimpleNativeEvents(topLevelType, target) :
            args = [topLevelType |-> topLevelType, targetInst |-> InstOf(target),
                    nativeEvent |-> nativeEvent, nativeEventTarget |-> target]
    /\ pc = "ready"
    /\ interactive = Null
    /\ ret = <<>>
    /\ listeners = ClickListeners
    /\ disabled = {}
    /\ walk = NotWalking
    /\ SelectIdle
    /\ RegistryIdle
    /\ DispatchIdle

ExtractSimple ==
    /\ pc = "ready"
    /\ ret' = SimpleEventPlugin_extractEvents(args.topLevelType, args.targetInst,
                                              args.nativeEvent, args.nativeEventTarget)
    /\ pc' = "done"
    /\ UNCHANGED <<args, interactive, selVarsButRet, treeVars, regVars, dspVars>>

SimpleNext == ExtractSimple

SpecSimple == SimpleInit /\ [][SimpleNext]_vars

\* isInteractiveTopLevelEventType asked about one top-level type: every type
\* the classifier has a config for, and types it has none for.
PriorityInit ==
    /\ \E topLevelType \in SimpleTopLevelTypes \cup {"topMouseEnter", "topSelect"} :
          args = [topLevelType |-> topLevelType]
    /\ pc = "ready"
    /\ interactive = Null
    /\ ret = <<>>
    /\ listeners = {}
    /\ disabled = {}
    /\ walk = NotWalking
    /\ SelectIdle
    /\ RegistryIdle
    /\ DispatchIdle

QueryInteractive ==
    /\ pc = "ready"
    /\ interactive' = isInteractiveTopLevelEventType(args.topLevelType)
    /\ pc' = "done"
    /\ UNCHANGED <<args, selVars, treeVars, regVars, dspVars>>

PriorityNext == QueryInteractive

SpecPriority == PriorityInit /\ [][PriorityNext]_vars

\* C5: the classifier returns no event for a topClick native event whose
\* button is 2, whatever the target and the other fields of the payload.
C5_RightClickDiscarded ==
    (pc = "done" /\ args.topLevelType = "topClick" /\ args.nativeEvent.button = 2)
        => ret = <<>>

C5_Witness ==
    /\ pc = "done"
    /\ args.topLevelType = "topClick"
    /\ args.nativeEvent.button = 2
    /\ args.nativeEventTarget = "B"
    /\ ret = <<>>

\* C6: the classifier returns no event for a topKeyPress native event whose
\* decoded character code is 0, and for topKeyDown and topKeyUp with the same
\* payload it returns a keyboard-shaped event.
C6_KeyPressWithoutCharacterDiscarded ==
    pc = "done" =>
        /\ (args.topLevelType = "topKeyPress"
                /\ getEventCharCode(args.nativeEvent) = 0)
              => ret = <<>>
        /\ args.topLevelType \in {"topKeyDown", "topKeyUp"}
              => /\ Len(ret) = 1
                 /\ ret[1].shape = "SyntheticKeyboardEvent"
                 /\ ret[1].dispatchConfig =
                        topLevelEventsToDispatchConfig[args.topLevelType]

C6_Witness ==
    /\ pc = "done"
    /\ args.topLevelType = "topKeyPress"
    /\ args.nativeEvent.charCode = 0
    /\ args.nativeEvent.keyCode = 9
    /\ ret = <<>>


\* ---------------------------------------------------------------------
\* EventPluginRegistry, the injection modules and the ReactTestUtils wrappers
\* ---------------------------------------------------------------------

\* f with the entries of g added or replaced.
Merge(f, g) ==
    [x \in (DOMAIN f) \cup (DOMAIN g) |-> IF x \in DOMAIN g THEN g[x] ELSE f[x]]

directConfig(registrationName, dependencies) ==
    [registrationName |-> registrationName, dependencies |-> dependencies]

phasedConfig(bubbled, dependencies) ==
    [phasedRegistrationNames |->
        [bubbled |-> bubbled, captured |-> bubbled \o "Capture"],
     dependencies |-> dependencies]

BeforeInputEventPlugin_eventTypes ==
    [beforeInput |-> phasedConfig("onBeforeInput",
        <<"topCompositionEnd", "topKeyPress", "topTextInput", "topPaste">>),
     compositionEnd |-> phasedConfig("onCompositionEnd",
        <<"topBlur", "topCompositionEnd", "topKeyDown", "topKeyPress",
          "topKeyUp", "topMouseDown">>),
     compositionStart |-> phasedConfig("onCompositionStart",
        <<"topBlur", "topCompositionStart", "topKeyDown", "topKeyPress",
          "topKeyUp", "topMouseDown">>),
     compositionUpdate |-> phasedConfig("onCompositionUpdate",
        <<"topBlur", "topCompositionUpdate", "topKeyDown", "topKeyPress",
          "topKeyUp", "topMouseDown">>)]

\* The plugin modules that get injected: the name each is injected under
\* and the logical event types it declares.
PluginModules ==
    [SimpleEventPlugin |->
        [id |-> "SimpleEventPlugin", name |-> "SimpleEventPlugin",
         eventTypes |-> SimpleEventPlugin_eventTypes],
     SelectEventPlugin |->
        [id |-> "SelectEventPlugin", name |-> "SelectEventPlugin",
         eventTypes |-> SelectEventPlugin_eventTypes],
     EnterLeaveEventPlugin |->
        [id |-> "EnterLeaveEventPlugin", name |-> "EnterLeaveEventPlugin",
         eventTypes |->
            [mouseEnter |-> directConfig("onMouseEnter", <<"topMouseOut", "topMouseOver">>),
             mouseLeave |-> directConfig("onMouseLeave", <<"topMouseOut", "topMouseOver">>)]],
     ChangeEventPlugin |->
        [id |-> "ChangeEventPlugin", name |-> "ChangeEventPlugin",
         eventTypes |->
            [change |-> phasedConfig("onChange",
                <<"topBlur", "topChange", "topClick", "topFocus", "topInput",
                  "topKeyDown", "topKeyUp", "topSelectionChange">>)]],
     BeforeInputEventPlugin |->
        [id |-> "BeforeInputEventPlugin", name |-> "BeforeInputEventPlugin",
         eventTypes |-> BeforeInputEventPlugin_eventTypes],
     ResponderEventPlugin |->
        [id |-> "ResponderEventPlugin", name |-> "ResponderEventPlugin",
         eventTypes |->
            [startShouldSetResponder |-> phasedConfig("onStartShouldSetResponder", <<>>),
             responderGrant |-> directConfig("onResponderGrant", <<>>)]],
     ReactNativeBridgeEventPlugin |->
        [id |-> "ReactNativeBridgeEventPlugin", name |-> "ReactNativeBridgeEventPlugin",
         eventTypes |-> <<>>],
     TapEventPlugin |->
        [id |-> "TapEventPlugin", name |-> "TapEventPlugin",
         eventTypes |-> [touchTap |-> phasedConfig("onTouchTap", <<"topTouchEnd">>)]],
     TestResponderPlugin |->
        [id |-> "TestResponderPlugin", name |-> "ResponderEventPlugin",
         eventTypes |->
            [responderGrant |-> directConfig("onResponderGrant", <<>>),
             touchTap |-> phasedConfig("onTouchTap", <<"topTouchStart">>)]],
     UnlistedPlugin |->
        [id |-> "UnlistedPlugin", name |-> "UnlistedPlugin",
         eventTypes |-> [unlisted |-> directConfig("onUnlisted", <<>>)]]]

DOMEventPluginOrder ==
    <<"ResponderEventPlugin", "SimpleEventPlugin", "TapEventPlugin",
      "EnterLeaveEventPlugin", "ChangeEventPlugin", "SelectEventPlugin",
      "BeforeInputEventPlugin">>

ReactNativeEventPluginOrder ==
    <<"ResponderEventPlugin", "ReactNativeBridgeEventPlugin">>

\* The registration names a dispatch config publishes.
registrationNamesOf(dispatchConfig) ==
    IF "phasedRegistrationNames" \in DOMAIN dispatchConfig
    THEN {dispatchConfig.phasedRegistrationNames.bubbled,
          dispatchConfig.phasedRegistrationNames.captured}
    ELSE {dispatchConfig.registrationName}

\* The plugin modules named by a list of identifiers.
modulesNamed(ids) == [i \in DOMAIN ids |-> PluginModules[ids[i]]]

\* The plugin modules of a batch that are not registered yet.
notYetInjected(reg, injectedNamesToPlugins) ==
    SelectSeq(injectedNamesToPlugins,
              LAMBDA pluginModule :
                 ~(\E i \in DOMAIN reg.plugins : reg.plugins[i] = pluginModule.id))

\* A plugin module the order does not name.
notInOrder(reg, pluginModule) ==
    \/ reg.eventPluginOrder = <<>>
    \/ ~(\E i \in DOMAIN reg.eventPluginOrder[1] :
            reg.eventPluginOrder[1][i] = pluginModule.name)

\* A plugin module declaring a logical name that is already registered.
claimsRegisteredName(reg, pluginModule) ==
    (DOMAIN pluginModule.eventTypes) \cap (DOMAIN reg.eventNameDispatchConfigs) # {}

\* The registered plugin modules, in the injected order.
orderedPlugins(reg, namesToPlugins) ==
    LET order == reg.eventPluginOrder[1]
        named == SelectSeq(order, LAMBDA name : name \in DOMAIN namesToPlugins)
    IN [i \in DOMAIN named |-> namesToPlugins[named[i]]]

\* The plugin modules published: their event types and registration names
\* join the tables and the modules take their places in the plugin list.
publishPlugins(reg, pluginModules) ==
    LET published == {pluginModules[i] : i \in DOMAIN pluginModules}
        declaring(e) == CHOOSE m \in published : e \in DOMAIN m.eventTypes
        eventTypes ==
            [e \in UNION {DOMAIN m.eventTypes : m \in published} |->
                declaring(e).eventTypes[e]]
        registering(n) ==
            CHOOSE m \in published :
                \E e \in DOMAIN m.eventTypes : n \in registrationNamesOf(m.eventTypes[e])
        names == UNION {registrationNamesOf(eventTypes[e]) : e \in DOMAIN eventTypes}
        namesToPlugins ==
            Merge(reg.namesToPlugins,
                  [name \in {m.name : m \in published} |->
                      (CHOOSE m \in published : m.name = name).id])
    IN IF published = {} THEN reg
       ELSE [reg EXCEPT
               !.namesToPlugins = namesToPlugins,
               !.plugins = orderedPlugins(reg, namesToPlugins),
               !.eventNameDispatchConfigs = Merge(@, eventTypes),
               !.registrationNameModules = Merge(@, [n \in names |-> registering(n).id])]

\* A batch that cannot be injected: a module the order does not name, or a
\* logical name claimed twice.
rejected(reg, pluginModules) ==
    \E i \in DOMAIN pluginModules :
        \/ notInOrder(reg, pluginModules[i])
        \/ claimsRegisteredName(reg, pluginModules[i])
        \/ \E j \in 1..(i - 1) :
              (DOMAIN pluginModules[i].eventTypes)
                 \cap (DOMAIN pluginModules[j].eventTypes) # {}

\* The order is taken once; a second call fails and changes nothing.
injectEventPluginOrder(reg, injectedEventPluginOrder) ==
    IF reg.eventPluginOrder # <<>>
    THEN [ok |-> FALSE, registry |-> reg]
    ELSE [ok |-> TRUE,
          registry |-> [reg EXCEPT !.eventPluginOrder = <<injectedEventPluginOrder>>]]

\* The batch is published plugin by plugin until one is rejected.
injectEventPluginsByName_PluginByPlugin(reg, injectedNamesToPlugins) ==
    LET pluginModules == notYetInjected(reg, injectedNamesToPlugins)
        accepted == {k \in 0..Len(pluginModules) :
                        ~rejected(reg, SubSeq(pluginModules, 1, k))}
        last == CHOOSE k \in accepted : \A j \in accepted : j <= k
    IN [ok |-> last = Len(pluginModules),
        registry |-> publishPlugins(reg, SubSeq(pluginModules, 1, last))]

\* The batch is validated as a whole and then published; a rejected batch
\* leaves the registry as it was.
injectEventPluginsByName(reg, injectedNamesToPlugins) ==
    LET pluginModules == notYetInjected(reg, injectedNamesToPlugins)
    IN IF rejected(reg, pluginModules)
       THEN [ok |-> FALSE, registry |-> reg]
       ELSE [ok |-> TRUE, registry |-> publishPlugins(reg, pluginModules)]

\* ReactTestUtils.js lines 395-406: one simulator per registered logical name.
buildSimulators(reg) == DOMAIN reg.eventNameDispatchConfigs

\* The plugins each injection module injects, in the order of its literal.
DOMPlugins ==
    modulesNamed(<<"SimpleEventPlugin", "EnterLeaveEventPlugin", "ChangeEventPlugin",
                   "SelectEventPlugin", "BeforeInputEventPlugin">>)

NativePlugins ==
    modulesNamed(<<"ResponderEventPlugin", "ReactNativeBridgeEventPlugin">>)

\* The statements of the two injection modules, in source order.
\* The plugins are injected before the order.
DOMInjection_PluginsFirst ==
    <<[op |-> "injectEventPluginsByName", arg |-> DOMPlugins],
      [op |-> "injectEventPluginOrder", arg |-> DOMEventPluginOrder],
      [op |-> "injectComponentTree", arg |-> <<"ReactDOMComponentTree">>]>>

DOMInjection ==
    <<[op |-> "injectEventPluginOrder", arg |-> DOMEventPluginOrder],
      [op |-> "injectComponentTree", arg |-> <<"ReactDOMComponentTree">>],
      [op |-> "injectEventPluginsByName",
       arg |-> DOMPlugins]>>

NativeInjection ==
    <<[op |-> "injectEventPluginOrder", arg |-> ReactNativeEventPluginOrder],
      [op |-> "injectComponentTree", arg |-> <<"ReactNativeComponentTree">>],
      [op |-> "injectGlobalResponderHandler",
       arg |-> <<"ReactNativeGlobalResponderHandler">>],
      [op |-> "injectEventPluginsByName",
       arg |-> NativePlugins]>>

moduleStatements ==
    CASE bundle = "dom" -> DOMInjection
      [] bundle = "native" -> NativeInjection
      [] OTHER -> <<>>

\* A fatal error while a module loads: nothing runs after it.
Aborted == -1

\* ReactTestUtils is loaded: the injection calls are the wrapped ones.
wrapped == bundle = "dom" /\ modulePc = Len(DOMInjection) + 2

\* The injection calls a test makes itself.
TestPluginModules ==
    {PluginModules[id] : id \in {"TapEventPlugin", "TestResponderPlugin", "UnlistedPlugin"}}

TestBatches ==
    {<<p>> : p \in TestPluginModules}
        \cup {b \in TestPluginModules \X TestPluginModules : b[1].id # b[2].id}

TestOrders ==
    {DOMEventPluginOrder,
     <<"TapEventPlugin", "ResponderEventPlugin">>,
     <<"ResponderEventPlugin", "TapEventPlugin">>}

notRegVars == <<selVars, treeVars, clsVars, dspVars>>

\* One registry call and its record: the registry changes as the call
\* says, and a call that fails throws.
RegistryCall(op, arg) ==
    LET result == IF op = "injectEventPluginOrder"
                  THEN injectEventPluginOrder(registry, arg)
                  ELSE injectEventPluginsByName(registry, arg)
    IN /\ registry' = result.registry
       /\ lastCall' = [op |-> op, arg |-> arg, ok |-> result.ok,
                       before |-> registry, beforeSimulate |-> Simulate]
       /\ injectedOrders' =
             IF op = "injectEventPluginOrder" /\ result.ok
             THEN injectedOrders + 1 ELSE injectedOrders

RegistryInit ==
    /\ bundle \in {"dom", "native", "none"}
    /\ modulePc = 1
    /\ registry = emptyRegistry
    /\ Simulate = {}
    /\ moduleCalls = <<>>
    /\ lastCall = NoCall
    /\ injectedOrders = 0
    /\ listeners = {}
    /\ disabled = {}
    /\ walk = NotWalking
    /\ SelectIdle
    /\ ret = <<>>
    /\ ClassifierIdle
    /\ DispatchIdle

\* The next statement of the injection module.
ModuleStatement ==
    /\ modulePc \in DOMAIN moduleStatements
    /\ LET statement == moduleStatements[modulePc]
       IN /\ moduleCalls' = Append(moduleCalls, statement.op)
          /\ IF statement.op \in {"injectEventPluginOrder", "injectEventPluginsByName"}
             THEN /\ RegistryCall(statement.op, statement.arg)
                  /\ modulePc' = IF lastCall'.ok THEN modulePc + 1 ELSE Aborted
             ELSE /\ modulePc' = modulePc + 1
                  /\ UNCHANGED <<registry, lastCall, injectedOrders>>
    /\ UNCHANGED <<Simulate, bundle, notRegVars>>

\* ReactTestUtils.js lines 408-421: the module wraps the two injection
\* functions and builds the simulators.
LoadTestUtils ==
    /\ bundle = "dom"
    /\ modulePc = Len(DOMInjection) + 1
    /\ Simulate' = buildSimulators(registry)
    /\ modulePc' = modulePc + 1
    /\ UNCHANGED <<registry, bundle, moduleCalls, lastCall, injectedOrders, notRegVars>>

\* The wrapper rebuilds the simulators first and injects afterwards.
TestInjects_RebuildsFirst(op, arg) ==
    /\ wrapped \/ bundle = "none"
    /\ op = "injectEventPluginsByName" => registry.eventPluginOrder # <<>>
    /\ RegistryCall(op, arg)
    /\ Simulate' = IF wrapped /\ lastCall'.ok
                   THEN buildSimulators(registry) ELSE Simulate
    /\ UNCHANGED <<bundle, modulePc, moduleCalls, notRegVars>>

\* A test injects through the (wrapped) functions: the simulators are
\* rebuilt when the wrapped function returns.
TestInjects(op, arg) ==
    /\ wrapped \/ bundle = "none"
    /\ op = "injectEventPluginsByName" => registry.eventPluginOrder # <<>>
    /\ RegistryCall(op, arg)
    /\ Simulate' = IF wrapped /\ lastCall'.ok
                   THEN buildSimulators(registry') ELSE Simulate
    /\ UNCHANGED <<bundle, modulePc, moduleCalls, notRegVars>>

InjectOrder ==
    \E order \in TestOrders :
        /\ TestInjects("injectEventPluginOrder", order)
        /\ lastCall'.op = "injectEventPluginOrder"

InjectPlugins ==
    \E batch \in TestBatches :
        /\ TestInjects("injectEventPluginsByName", batch)
        /\ lastCall'.op = "injectEventPluginsByName"

RegistryNext == ModuleStatement \/ LoadTestUtils \/ InjectOrder \/ InjectPlugins

SpecRegistry == RegistryInit /\ [][RegistryNext]_vars


\* The logical names a batch declares twice: a name of one of its modules
\* that is not registered yet is already in the table or is declared by
\* another module of the batch.
DuplicatesLogicalName(before, batch) ==
    \E i \in DOMAIN batch :
        /\ ~(\E k \in DOMAIN before.plugins : before.plugins[k] = batch[i].id)
        /\ \E e \in DOMAIN batch[i].eventTypes :
              \/ e \in DOMAIN before.eventNameDispatchConfigs
              \/ \E j \in DOMAIN batch :
                    batch[j].id # batch[i].id /\ e \in DOMAIN batch[j].eventTypes

\* A batch with a module whose name the injected order does not list.
NamesUnlistedPlugin(before, batch) ==
    \E i \in DOMAIN batch :
        /\ ~(\E k \in DOMAIN before.plugins : before.plugins[k] = batch[i].id)
        /\ ~(\E k \in DOMAIN before.eventPluginOrder[1] :
                before.eventPluginOrder[1][k] = batch[i].name)

registryCallsOf(calls) ==
    SelectSeq(calls, LAMBDA op : op \in {"injectEventPluginOrder",
                                         "injectEventPluginsByName"})

\* C8: injectEventPluginOrder succeeds at most once; a call made when an
\* order is established fails and leaves that order (and the rest of the
\* registry) unchanged; injecting a plugin the order does not name fails;
\* each injection module calls injectEventPluginOrder once, before its
\* injectEventPluginsByName call.
C8_OrderInjectedOnce ==
    /\ injectedOrders <= 1
    /\ (lastCall.op = "injectEventPluginOrder"
           /\ lastCall.before.eventPluginOrder # <<>>)
       => /\ ~lastCall.ok
          /\ registry.eventPluginOrder = lastCall.before.eventPluginOrder
          /\ registry = lastCall.before
    /\ (lastCall.op = "injectEventPluginsByName"
           /\ lastCall.before.eventPluginOrder # <<>>
           /\ NamesUnlistedPlugin(lastCall.before, lastCall.arg))
       => /\ ~lastCall.ok
          /\ registry = lastCall.before
    /\ bundle \in {"dom", "native"}
       => /\ modulePc # Aborted
          /\ registryCallsOf(moduleCalls) \in
                {<<>>, <<"injectEventPluginOrder">>,
                 <<"injectEventPluginOrder", "injectEventPluginsByName">>}
          /\ modulePc > Len(moduleStatements)
                => registryCallsOf(moduleCalls) =
                      <<"injectEventPluginOrder", "injectEventPluginsByName">>

\* After the DOM injection module has run, a second order and a plugin
\* the order does not name have both been refused.
C8_Witness ==
    /\ bundle = "dom"
    /\ modulePc > Len(moduleStatements)
    /\ injectedOrders = 1
    /\ registry.eventPluginOrder = <<DOMEventPluginOrder>>
    /\ lastCall.op = "injectEventPluginOrder"
    /\ lastCall.arg # DOMEventPluginOrder
    /\ ~lastCall.ok
    /\ Len(registry.plugins) = 6


\* ---------------------------------------------------------------------
\* The dispatch loop: extraction in plugin order, listeners, release
\* ---------------------------------------------------------------------

\* What a listener may do with the event it is handed.
stopPropagation(event) == [event EXCEPT !.propagationStopped = TRUE]

preventDefault(event) == [event EXCEPT !.defaultPrevented = TRUE]

persist(event) == [event EXCEPT !.persistent = TRUE]

\* A value a listener (or the eventData of a simulation) stores on the
\* event under a name of its own.
assign(event, value) == [event EXCEPT !.adhoc = value]

ListenerBehaviours ==
    {"return", "stopPropagation", "preventDefault", "persist", "assign"}

handled(event, behaviour) ==
    CASE behaviour = "stopPropagation" -> stopPropagation(event)
      [] behaviour = "preventDefault" -> preventDefault(event)
      [] behaviour = "persist" -> persist(event)
      [] behaviour = "assign" -> assign(event, "derived")
      [] OTHER -> event

\* The extension fields keep the values of the released event.
destructor_KeepsExtension(event) ==
    [New(event.shape) EXCEPT !.adhoc = event.adhoc, !.id = event.id, !.ext = event.ext]

\* The destructor: every declared field back at its default.  Properties
\* assigned to the instance are not destroyed.
destructor(event) ==
    [New(event.shape) EXCEPT !.adhoc = event.adhoc, !.id = event.id]

\* release(event) as seen through a reference to the instance.
release(event) == IF event.persistent THEN event ELSE destructor(event)

\* The instances handed out stay on the free lists.
popped_KeepsInstances(pools, events) == pools

\* The pools once the instances handed out for a batch are taken out.
popped(pools, events) ==
    [shape \in Shapes |->
        IF pools[shape] # <<>>
           /\ \E i \in DOMAIN events : events[i].shape = shape /\ events[i].pooled
        THEN SubSeq(pools[shape], 1, Len(pools[shape]) - 1)
        ELSE pools[shape]]

\* The pools once the batch is released: the instances that release has
\* reset go back to the pool of their shape.
pushed(pools, events) ==
    [shape \in Shapes |->
        LET back == SelectSeq(events,
                        LAMBDA e : e.shape = shape /\ release(e) # e)
        IN pools[shape] \o [i \in DOMAIN back |-> release(back[i])]]

\* The chain of an event goes on after a handler stopped its propagation.
nextListener_IgnoresStop(events, i, k) ==
    LET waiting == {j \in i..Len(events) :
                      (IF j = i THEN k ELSE 1) <= Len(events[j]._dispatchListeners)}
    IN IF waiting = {} THEN NotDispatching
       ELSE LET j == CHOOSE j \in waiting : \A l \in waiting : j <= l
            IN [event |-> j, entry |-> IF j = i THEN k ELSE 1]

\* The listener to invoke next, from entry k of event i on: the chain of an
\* event ends where propagation is stopped.
nextListener(events, i, k) ==
    LET waiting == {j \in i..Len(events) :
                      /\ ~events[j].propagationStopped
                      /\ (IF j = i THEN k ELSE 1) <= Len(events[j]._dispatchListeners)}
    IN IF waiting = {} THEN NotDispatching
       ELSE LET j == CHOOSE j \in waiting : \A l \in waiting : j <= l
            IN [event |-> j, entry |-> IF j = i THEN k ELSE 1]

\* What the caller of a batch keeps of it.
Batch(nativeOf, events, listenersRun, persists) ==
    [native |-> nativeOf, acquired |-> events, invoked |-> listenersRun,
     persistCalls |-> persists]

\* A batch as the listener that dispatches again leaves it behind.
Frame(events, position, batch) ==
    [queue |-> events, cur |-> position, native |-> batch.native,
     acquired |-> batch.acquired, invoked |-> batch.invoked,
     persistCalls |-> batch.persistCalls]

\* The events of a suspended batch as its listener finds them when the
\* dispatch it made returns: an event whose instance the inner batch also
\* held is that instance as the inner batch released it.
resumed(outer, inner) ==
    [j \in DOMAIN outer |->
        LET same == {n \in DOMAIN inner :
                        /\ inner[n].pooled /\ outer[j].pooled
                        /\ inner[n].shape = outer[j].shape
                        /\ inner[n].id = outer[j].id}
        IN IF same = {} THEN outer[j]
           ELSE release(inner[CHOOSE n \in same : TRUE])]

\* The batch runs on to its next listener; when none is left the events
\* are released and the dispatch is over: the caller is the host or, for a
\* dispatch made by a listener, that listener's batch.
RunBatch(pools, events, i, k, frames, batch) ==
    LET next == nextListener(events, i, k)
    IN IF next # NotDispatching
       THEN /\ cur' = next
            /\ queue' = events
            /\ released' = <<>>
            /\ pool' = pools
            /\ stack' = frames
            /\ native' = batch.native
            /\ acquired' = batch.acquired
            /\ invoked' = batch.invoked
            /\ persistCalls' = batch.persistCalls
       ELSE /\ released' = [j \in DOMAIN events |->
                              [before |-> events[j], after |-> release(events[j])]]
            /\ pool' = pushed(pools, events)
            /\ LET caller == IF frames = <<>>
                             THEN Frame(<<>>, NotDispatching, batch)
                             ELSE [Head(frames) EXCEPT
                                      !.queue = resumed(@, events)]
               IN /\ cur' = caller.cur
                  /\ queue' = caller.queue
                  /\ stack' = IF frames = <<>> THEN <<>> ELSE Tail(frames)
                  /\ native' = caller.native
                  /\ acquired' = caller.acquired
                  /\ invoked' = caller.invoked
                  /\ persistCalls' = caller.persistCalls

RECURSIVE accumulateInto(_)
accumulateInto(extracted) ==
    IF extracted = <<>> THEN <<>>
    ELSE Head(extracted) \o accumulateInto(Tail(extracted))

\* The composition events of BeforeInputEventPlugin.
BeforeInputEventPlugin_extractEvents(topLevelType, targetInst, nativeEvent, nativeEventTarget) ==
    IF topLevelType = "topCompositionEnd"
    THEN <<accumulateTwoPhaseDispatches(
              getPooled("SyntheticCompositionEvent",
                        BeforeInputEventPlugin_eventTypes.compositionEnd,
                        targetInst, nativeEvent, nativeEventTarget))>>
    ELSE <<>>

\* The registry once ReactDOM and ReactTestUtils are loaded.
LoadedRegistry ==
    injectEventPluginsByName(
        injectEventPluginOrder(emptyRegistry, DOMEventPluginOrder).registry,
        DOMPlugins).registry

\* accumulateDirectDispatches: the listeners registered under the one
\* registration name along the path from the target up.
accumulateDirectDispatches(event) ==
    [event EXCEPT !._dispatchListeners =
        chainOf(ancestors(event._targetInst),
                event.dispatchConfig.registrationName, "direct")]

\* eventType.toLowerCase() for the event types that are simulated.
toLowerCase(eventType) ==
    CASE eventType = "mouseEnter" -> "mouseenter"
      [] eventType = "doubleClick" -> "doubleclick"
      [] OTHER -> eventType

\* ReactTestUtils.js lines 343-386: the event a simulator builds.
makeSimulator_NoPersist(eventType, domNode, eventData) ==
    LET dispatchConfig == registry.eventNameDispatchConfigs[eventType]
        fakeNativeEvent == NativeEvent(toLowerCase(eventType), domNode)
        event == SyntheticEvent(New("SyntheticEvent"), dispatchConfig,
                                InstOf(domNode), fakeNativeEvent, domNode)
        assigned == IF eventData = Null THEN event ELSE assign(event, eventData)
    IN IF "phasedRegistrationNames" \in DOMAIN dispatchConfig
       THEN accumulateTwoPhaseDispatches(assigned)
       ELSE accumulateDirectDispatches(assigned)

makeSimulator(eventType, domNode, eventData) ==
    LET dispatchConfig == registry.eventNameDispatchConfigs[eventType]
        fakeNativeEvent == NativeEvent(toLowerCase(eventType), domNode)
        event == persist(SyntheticEvent(New("SyntheticEvent"), dispatchConfig,
                                        InstOf(domNode), fakeNativeEvent, domNode))
        assigned == IF eventData = Null THEN event ELSE assign(event, eventData)
    IN IF "phasedRegistrationNames" \in DOMAIN dispatchConfig
       THEN accumulateTwoPhaseDispatches(assigned)
       ELSE accumulateDirectDispatches(assigned)

selEnvVars ==
    <<platform, docActiveElement, inputSelection, windowSelection, listening,
      trail, press, held, call, ungated>>

\* ReactTestUtils.js lines 439-458 and 301-304: the fake native event a
\* native simulator builds, named after the top-level type, with the data
\* assigned to it and the node as its target.
makeNativeSimulator(eventType, domComponentOrNode, nativeEventData) ==
    [NativeEvent(eventType, domComponentOrNode) EXCEPT !.data = nativeEventData]

\* The native event that reaches the dispatch entry point: the browser's,
\* or the one a native simulator made.
nativeEventOf(h) ==
    IF h.entry = "simulateNative"
    THEN makeNativeSimulator(h.topLevelType, h.target, h.data)
    ELSE [NativeEvent(nativeTypeOf(h.topLevelType), h.target)
             EXCEPT !.data = h.data, !.relatedTarget = h.relatedTarget]

\* dispatchEvent: every plugin extracts in plugin order, and the batch
\* runs to its first listener.
dispatchEvent(h, frames) ==
    LET nativeEvent == nativeEventOf(h)
        targetInst == InstOf(h.target)
    IN /\ SelectEventPlugin_extractEvents(h.topLevelType, targetInst,
                                          nativeEvent, h.target)
       /\ LET extracted(pluginModule) ==
                  CASE pluginModule = "SimpleEventPlugin" ->
                         SimpleEventPlugin_extractEvents(
                             h.topLevelType, targetInst, nativeEvent, h.target)
                    [] pluginModule = "SelectEventPlugin" -> ret'
                    [] pluginModule = "BeforeInputEventPlugin" ->
                         BeforeInputEventPlugin_extractEvents(
                             h.topLevelType, targetInst, nativeEvent, h.target)
                    [] OTHER -> <<>>
              events == accumulateInto(
                           [i \in DOMAIN registry.plugins |->
                               extracted(registry.plugins[i])])
              nativeOf == [entry |-> h.entry, topLevelType |-> h.topLevelType,
                           nativeEvent |-> nativeEvent,
                           nativeEventTarget |-> h.target,
                           reused |-> {events[i].shape : i \in DOMAIN events}
                                         \ {shape \in Shapes : pool[shape] = <<>>}]
          IN RunBatch(popped(pool, events), events, 1, 1, frames,
                      Batch(nativeOf, events, <<>>, [i \in DOMAIN events |-> 0]))
       /\ UNCHANGED <<selEnvVars, treeVars, clsVars, regVars, host>>

\* The host hands a native event to the dispatch entry point.
DispatchEvent ==
    \E h \in host :
        /\ h.entry = "dispatch"
        /\ cur = NotDispatching
        /\ thrown' = FALSE
        /\ dispatchEvent(h, <<>>)

\* ReactTestUtils.SimulateNative[name](node, nativeEventData): the fake
\* native event goes through the dispatch entry point.
SimulateNativeEvent ==
    \E h \in host :
        /\ h.entry = "simulateNative"
        /\ cur = NotDispatching
        /\ h.target \in AllNodes
        /\ thrown' = FALSE
        /\ dispatchEvent(h, <<>>)

\* The top-level type a simulated event type would be extracted for.
topLevelTypeOf(eventType) ==
    CASE eventType = "mouseDown" -> "topMouseDown"
      [] eventType = "focus" -> "topFocus"
      [] eventType = "blur" -> "topBlur"
      [] OTHER -> "topClick"

\* The simulator hands its event to the selection plugin as well.
SimulateEvent_ThroughPlugin ==
    \E h \in host :
        /\ h.entry = "simulate"
        /\ cur = NotDispatching
        /\ h.topLevelType \in Simulate
        /\ LET event == makeSimulator(h.topLevelType, h.target, h.data)
               nativeOf == [entry |-> "simulate", topLevelType |-> h.topLevelType,
                            nativeEvent |-> event.nativeEvent,
                            nativeEventTarget |-> h.target, reused |-> {}]
           IN /\ SelectEventPlugin_extractEvents(topLevelTypeOf(h.topLevelType),
                     InstOf(h.target), event.nativeEvent, h.target)
              /\ RunBatch(pool, <<event>>, 1, 1, <<>>,
                          Batch(nativeOf, <<event>>, <<>>, <<1>>))
        /\ thrown' = FALSE
        /\ UNCHANGED <<selEnvVars, treeVars, clsVars, regVars, host>>

\* ReactTestUtils.Simulate[eventType](domNode, eventData): the event is
\* built and run as a batch of its own; no plugin extracts.
SimulateEvent ==
    \E h \in host :
        /\ h.entry = "simulate"
        /\ cur = NotDispatching
        /\ h.topLevelType \in Simulate
        /\ LET event == makeSimulator(h.topLevelType, h.target, h.data)
               nativeOf == [entry |-> "simulate", topLevelType |-> h.topLevelType,
                            nativeEvent |-> event.nativeEvent,
                            nativeEventTarget |-> h.target, reused |-> {}]
           IN RunBatch(pool, <<event>>, 1, 1, <<>>,
                       Batch(nativeOf, <<event>>, <<>>, <<1>>))
        /\ thrown' = FALSE
        /\ UNCHANGED <<selVars, treeVars, clsVars, regVars, host>>

\* The listener at cur: the entry recorded when it is invoked.
listenerAt(position) ==
    LET listener == queue[position.event]._dispatchListeners[position.entry]
    IN [event |-> position.event, inst |-> listener.inst,
        phase |-> listener.phase, name |-> listener.name]

\* The listener at cur has been invoked and has not returned: the dispatch
\* it made is over.
running ==
    /\ cur # NotDispatching
    /\ invoked # <<>>
    /\ invoked[Len(invoked)] = listenerAt(cur)

\* The listener that is next in the chain runs; the batch then goes on.
InvokeListener ==
    \E behaviour \in ListenerBehaviours :
        /\ cur # NotDispatching
        /\ ~running
        /\ LET event == queue[cur.event]
               events == [queue EXCEPT ![cur.event] = handled(event, behaviour)]
               persists == IF behaviour = "persist" /\ persistCalls[cur.event] < 2
                           THEN [persistCalls EXCEPT ![cur.event] = @ + 1]
                           ELSE persistCalls
           IN RunBatch(pool, events, cur.event, cur.entry + 1, stack,
                       Batch(native, acquired, Append(invoked, listenerAt(cur)),
                             persists))
        /\ UNCHANGED <<selVars, treeVars, clsVars, regVars, thrown, host>>

\* How deep listeners dispatch from within a dispatch.
MaxDepth == 1

\* The listener that is next in the chain runs and, before it returns, has
\* the host deliver another native event (it moves the focus, say): that
\* event is dispatched at once, with the listener's batch suspended.
NestedDispatch ==
    \E h \in host :
        /\ h.entry = "dispatch"
        /\ cur # NotDispatching
        /\ ~running
        /\ Len(stack) < MaxDepth
        /\ dispatchEvent(h, <<Frame(queue, cur,
                                    Batch(native, acquired,
                                          Append(invoked, listenerAt(cur)),
                                          persistCalls))>> \o stack)
        /\ UNCHANGED thrown

\* The listener whose dispatch is over returns; its batch goes on.
ListenerReturns ==
    /\ running
    /\ RunBatch(pool, queue, cur.event, cur.entry + 1, stack,
                Batch(native, acquired, invoked, persistCalls))
    /\ UNCHANGED <<selVars, treeVars, clsVars, regVars, thrown, host>>

\* The failing dispatch leaves its events as they are.
unwound_LeavesEvents(event) == event

\* An event of a batch once the dispatch has ended with an exception: the
\* release step has still run on it.
unwound(event) == release(event)

\* The listener that is next in the chain runs and throws: the dispatch
\* ends there, its events go through the release step, and the exception
\* is the caller's.
ListenerThrows ==
    \E behaviour \in ListenerBehaviours :
        /\ cur # NotDispatching
        /\ ~running
        /\ stack = <<>>
        /\ LET event == queue[cur.event]
               events == [queue EXCEPT ![cur.event] = handled(event, behaviour)]
               after == [j \in DOMAIN events |-> unwound(events[j])]
           IN /\ invoked' = Append(invoked, listenerAt(cur))
              /\ persistCalls' =
                    IF behaviour = "persist" /\ persistCalls[cur.event] < 2
                    THEN [persistCalls EXCEPT ![cur.event] = @ + 1]
                    ELSE persistCalls
              /\ released' = [j \in DOMAIN events |->
                                [before |-> events[j], after |-> after[j]]]
              /\ pool' = [shape \in Shapes |->
                            pool[shape] \o SelectSeq(after,
                                LAMBDA e : e.shape = shape /\ ~e.pooled /\ ~e.persistent)]
        /\ queue' = <<>>
        /\ cur' = NotDispatching
        /\ thrown' = TRUE
        /\ UNCHANGED <<selVars, treeVars, clsVars, regVars, native, acquired, stack, host>>

\* ReactDOM and ReactTestUtils are loaded, an editable element has the
\* platform's focus and onSelect is listened to.
DispatchReady ==
    /\ registry = LoadedRegistry
    /\ Simulate = buildSimulators(LoadedRegistry)
    /\ bundle = "dom"
    /\ modulePc = Len(DOMInjection) + 2
    /\ moduleCalls = [i \in DOMAIN DOMInjection |-> DOMInjection[i].op]
    /\ lastCall = NoCall
    /\ injectedOrders = 1
    /\ activeElement = Null
    /\ activeElementInst = Null
    /\ lastSelection = NullObject
    /\ mouseDown = FALSE
    /\ platform = "modern"
    /\ docActiveElement = "E1"
    /\ inputSelection = [start |-> 0, end |-> 1]
    /\ windowSelection = [anchorNode |-> "E2", anchorOffset |-> 0,
                          focusNode |-> "E2", focusOffset |-> 0]
    /\ listening = TRUE
    /\ ret = <<>>
    /\ trail = <<>>
    /\ press = "idle"
    /\ held = FALSE
    /\ call = NoCall
    /\ ungated = Untracked
    /\ ClassifierIdle
    /\ pool = emptyPools
    /\ queue = <<>>
    /\ cur = NotDispatching
    /\ native = NullObject
    /\ acquired = <<>>
    /\ invoked = <<>>
    /\ released = <<>>
    /\ persistCalls = <<>>
    /\ thrown = FALSE
    /\ stack = <<>>

HostEvent(entry, topLevelType, target, data, relatedTarget) ==
    [entry |-> entry, topLevelType |-> topLevelType, target |-> target,
     data |-> data, relatedTarget |-> relatedTarget]

\* Clicks on B, the innermost node of the chain root -> A -> B, under every
\* choice of click listeners on the chain, with B enabled or disabled.
ClickHost ==
    {HostEvent("dispatch", "topClick", "B", Null, Null),
     HostEvent("simulate", "click", "B", Null, Null),
     HostEvent("simulate", "mouseEnter", "B", Null, Null)}

ChainListeners ==
    {InstOf("root"), InstOf("A"), InstOf("B")} \X {"onClick", "onClickCapture"}

DispatchInit ==
    /\ DispatchReady
    /\ host = ClickHost
    /\ \E chosen \in SUBSET ChainListeners :
          listeners = chosen \cup {<<InstOf("B"), "onMouseEnter">>}
    /\ disabled \in {{}, {InstOf("B")}}
    /\ walk = NotWalking

DispatchNext == DispatchEvent \/ SimulateEvent \/ InvokeListener

SpecDispatch == DispatchInit /\ [][DispatchNext]_vars


\* The handlers registered under a name on the nodes of a path, in path order.
PresentOn(path, phase, registrationName) ==
    LET present == SelectSeq(path, LAMBDA inst : <<inst, registrationName>> \in listeners)
    IN [i \in DOMAIN present |-> [inst |-> present[i], phase |-> phase]]

\* The capture handlers from the root down to B, then the bubble handlers
\* from B up to the root.
ExpectedClickInvocations ==
    PresentOn(<<InstOf("root"), InstOf("A"), InstOf("B")>>, "captured", "onClickCapture")
    \o PresentOn(<<InstOf("B"), InstOf("A"), InstOf("root")>>, "bubbled", "onClick")

InvokedHandlers ==
    [i \in DOMAIN invoked |-> [inst |-> invoked[i].inst, phase |-> invoked[i].phase]]

ClickOnB ==
    /\ native # NullObject
    /\ native.topLevelType \in {"topClick", "click"}
    /\ native.nativeEventTarget = "B"

PoolHost ==
    {HostEvent("dispatch", "topFocus", "E1", Null, r) : r \in {Null, "E2"}}
    \cup {HostEvent("dispatch", "topCompositionEnd", "E1", d, Null) : d \in {"a", "b"}}
    \cup {HostEvent("dispatch", "topMouseUp", "E1", Null, Null),
          HostEvent("dispatch", "topInput", "E1", Null, Null),
          HostEvent("simulate", "select", "E1", "derived", Null)}

PoolListeners ==
    {<<InstOf("E1"), "onFocus">>, <<InstOf("D"), "onFocusCapture">>,
     <<InstOf("E1"), "onSelect">>, <<InstOf("D"), "onSelectCapture">>,
     <<InstOf("E1"), "onInput">>, <<InstOf("E1"), "onCompositionEnd">>,
     <<InstOf("E1"), "onMouseUp">>}

PoolInit ==
    /\ DispatchReady
    /\ host = PoolHost
    /\ listeners = PoolListeners
    /\ disabled = {}
    /\ walk = NotWalking

SpecPool == PoolInit /\ [][DispatchNext]_vars

\* A focus-in and a pointer-up on the text input E1, whose parent is D, and
\* a simulated select: batches of one and of two events, whose listeners
\* may throw.
ThrowHost ==
    {HostEvent("dispatch", "topFocus", "E1", Null, "E2"),
     HostEvent("dispatch", "topMouseUp", "E1", Null, Null),
     HostEvent("simulate", "select", "E1", "derived", Null)}

ThrowInit ==
    /\ DispatchReady
    /\ host = ThrowHost
    /\ listeners = PoolListeners
    /\ disabled = {}
    /\ walk = NotWalking

ThrowNext == DispatchNext \/ ListenerThrows

SpecThrow == ThrowInit /\ [][ThrowNext]_vars

\* Focus-ins on the text input E1, whose parent is D, with payloads that
\* differ: either may arrive while a listener of the other is running.
NestedHost ==
    {HostEvent("dispatch", "topFocus", "E1", Null, r) : r \in {Null, "E2"}}

NestedListeners ==
    {<<InstOf("E1"), "onFocus">>, <<InstOf("D"), "onFocusCapture">>}

NestedInit ==
    /\ DispatchReady
    /\ host = NestedHost
    /\ listeners = NestedListeners
    /\ disabled = {}
    /\ walk = NotWalking

NestedNext == DispatchEvent \/ InvokeListener \/ NestedDispatch \/ ListenerReturns

SpecNested == NestedInit /\ [][NestedNext]_vars

\* Pointer, focus and select events on the text input E1, simulated with
\* Simulate and with SimulateNative, and a key-up from the browser.
SimulateHost ==
    {HostEvent("simulate", t, "E1", Null, Null) : t \in {"mouseDown", "focus", "blur"}}
        \cup {HostEvent("simulateNative", t, "E1", Null, Null) :
                  t \in {"topMouseDown", "topMouseUp", "topFocus", "topBlur"}}
        \cup {HostEvent("dispatch", "topKeyUp", "E1", Null, Null)}

SimulateListeners ==
    {<<InstOf("E1"), "onMouseDown">>, <<InstOf("E1"), "onSelect">>}

SimulateInit ==
    /\ DispatchReady
    /\ host = SimulateHost
    /\ listeners = SimulateListeners
    /\ disabled = {}
    /\ walk = NotWalking

SimulateNext == DispatchNext \/ SimulateNativeEvent

SpecSimulate == SimulateInit /\ [][SimulateNext]_vars


\* An event as extraction must hand it out for the native event being
\* dispatched: every declared field is set from that native event (or, for
\* a select event, from the recorded element) and the flags are clear.
BuiltForNative(e) ==
    LET isSelect == e.dispatchConfig = SelectEventPlugin_eventTypes.select
    IN /\ e.nativeEvent = native.nativeEvent
       /\ e.type = (IF isSelect THEN "select" ELSE native.nativeEvent.type)
       /\ e.target = (IF isSelect THEN activeElement ELSE native.nativeEventTarget)
       /\ e._targetInst = (IF isSelect THEN activeElementInst
                           ELSE InstOf(native.nativeEventTarget))
       /\ e.currentTarget = Null
       /\ ~e.defaultPrevented /\ ~e.propagationStopped /\ ~e.persistent
       /\ e.shape = "SyntheticCompositionEvent"
             => DOMAIN e.ext = {"data"} /\ e.ext.data = native.nativeEvent.data
       /\ e.shape = "SyntheticFocusEvent"
             => /\ DOMAIN e.ext = {"relatedTarget"}
                /\ e.ext.relatedTarget = native.nativeEvent.relatedTarget

Dispatched == native # NullObject /\ native.entry = "dispatch"

\* C9 as stated: every instance released without persist() is back at the
\* defaults of its shape, whatever was stored on it, and an event acquired
\* from a pool carries nothing of the previous use: neither a declared
\* field, nor the type and target of a select event, nor a value a handler
\* had assigned.
C9_NothingLeftFromPreviousUse ==
    /\ \A shape \in Shapes : \A k \in DOMAIN pool[shape] :
          pool[shape][k] = New(shape)
    /\ \A j \in DOMAIN released :
          persistCalls[j] = 0 => released[j].after = New(released[j].before.shape)
    /\ Dispatched
          => \A i \in DOMAIN acquired :
                BuiltForNative(acquired[i]) /\ acquired[i].adhoc = Null

\* C9, amended: every base and extension field of an instance released
\* without persist() is back at its default, and every declared field of an
\* event acquired from a pool is the one built for the native event at hand,
\* including the type and target a select event had overwritten.  (Values
\* assigned to the instance under other names are left out.)
C9_DeclaredFieldsReset ==
    /\ \A shape \in Shapes : \A k \in DOMAIN pool[shape] :
          [pool[shape][k] EXCEPT !.adhoc = Null] = New(shape)
    /\ \A j \in DOMAIN released :
          persistCalls[j] = 0
             => [released[j].after EXCEPT !.adhoc = Null] = New(released[j].before.shape)
    /\ Dispatched => \A i \in DOMAIN acquired : BuiltForNative(acquired[i])

\* A composition event built on a reused instance: its data is that of the
\* native event at hand, and the value a handler assigned during the
\* previous use is still on it.
C9_Witness ==
    /\ Dispatched
    /\ native.topLevelType = "topCompositionEnd"
    /\ "SyntheticCompositionEvent" \in native.reused
    /\ cur # NotDispatching
    /\ invoked = <<>>
    /\ acquired[1].ext.data = "b"
    /\ acquired[1].adhoc = "derived"

\* C10: an event persist() has been called on, once or more than once, is
\* persistent and a further call changes nothing; release leaves it as it
\* is; no pool ever holds a persistent instance, and the batch's release
\* adds to each pool exactly the events of its shape that persist() was not
\* called on.  The event of a simulation is persisted when it is built.
C10_PersistIdempotent ==
    /\ [](/\ \A i \in DOMAIN queue :
               /\ persist(persist(queue[i])) = persist(queue[i])
               /\ persistCalls[i] >= 1
                     => queue[i].persistent /\ persist(queue[i]) = queue[i]
          /\ \A j \in DOMAIN released :
               persistCalls[j] >= 1
                  => /\ released[j].before.persistent
                     /\ released[j].after = released[j].before
          /\ \A shape \in Shapes : \A k \in DOMAIN pool[shape] :
               ~pool[shape][k].persistent
          /\ (native # NullObject /\ native.entry = "simulate")
                => \A i \in DOMAIN acquired :
                      acquired[i].persistent /\ persistCalls[i] >= 1)
    /\ [][(cur # NotDispatching /\ cur' = NotDispatching)
             => \A shape \in Shapes :
                   Len(pool'[shape]) = Len(pool[shape])
                      + Cardinality({j \in DOMAIN released' :
                                       /\ persistCalls'[j] = 0
                                       /\ released'[j].before.shape = shape})]_vars

\* A dispatched event on which two handlers called persist() has been
\* released: it is what it was and its pool is empty.
C10_Witness ==
    /\ Dispatched
    /\ cur = NotDispatching
    /\ Len(released) = 1
    /\ persistCalls[1] = 2
    /\ released[1].after = released[1].before
    /\ released[1].before.shape = "SyntheticFocusEvent"
    /\ released[1].before.ext.relatedTarget = "E2"
    /\ pool["SyntheticFocusEvent"] = <<>>



\* The listeners invoked so far for event j of the batch, in order.
InvokedFor(j) ==
    LET mine == SelectSeq(invoked, LAMBDA x : x.event = j)
    IN [n \in DOMAIN mine |->
           [inst |-> mine[n].inst, phase |-> mine[n].phase, name |-> mine[n].name]]

IsPrefix(s, t) == Len(s) <= Len(t) /\ s = SubSeq(t, 1, Len(s))

\* C11: once a handler has called stopPropagation() on an event, no later
\* entry of that event's chain is invoked: the listener to run next never
\* belongs to a stopped event, and no listener is ever invoked on one.  The
\* handlers invoked for an event are the first entries of its chain (capture
\* entries, then bubble entries), so a stop in the capture phase leaves no
\* bubble handler invoked; the invocations made before the call stay as they
\* are; and every event of the batch that was not stopped has its whole
\* chain invoked, also when an earlier event of the batch was stopped.
C11_StopPropagationEndsChain ==
    /\ [](/\ \A j \in DOMAIN queue :
               /\ IsPrefix(InvokedFor(j), queue[j]._dispatchListeners)
               /\ queue[j].propagationStopped => cur.event > j
          /\ \A j \in DOMAIN released :
               LET chain == released[j].before._dispatchListeners
                   mine == InvokedFor(j)
               IN /\ IsPrefix(mine, chain)
                  /\ ~released[j].before.propagationStopped => mine = chain
                  /\ (/\ released[j].before.propagationStopped
                      /\ mine # <<>>
                      /\ mine[Len(mine)].phase = "captured")
                        => \A n \in DOMAIN mine : mine[n].phase = "captured")
    /\ [][cur # NotDispatching
            => /\ IsPrefix(invoked, invoked')
               /\ Len(invoked') = Len(invoked) + 1
               /\ invoked'[Len(invoked')].event = cur.event
               /\ ~queue[cur.event].propagationStopped]_vars

\* A pointer-up produced a pointer-up event and a select event.  The handler
\* of the first stopped it; the select event was dispatched all the same,
\* its capture handler on D stopped it, and its bubble handler on E1 was not
\* invoked.
C11_Witness ==
    /\ Dispatched
    /\ native.topLevelType = "topMouseUp"
    /\ cur = NotDispatching
    /\ Len(released) = 2
    /\ released[1].before.propagationStopped
    /\ released[2].before.propagationStopped
    /\ Len(released[2].before._dispatchListeners) = 2
    /\ Len(invoked) = 2
    /\ invoked[1].event = 1 /\ invoked[1].inst = InstOf("E1")
    /\ invoked[2].event = 2 /\ invoked[2].inst = InstOf("D")
    /\ invoked[2].phase = "captured"



\* ---------------------------------------------------------------------
\* The dispatch configs the classifier and the selection plugin declare
\* ---------------------------------------------------------------------

\* The event names of the two priority lists, in the order they are declared.
DeclaredEventTypeNames == interactiveEventTypeNames \o nonInteractiveEventTypeNames

\* X with its first character in upper case.
Capitalized(X) == text(<<toUpperCase(X[1])>> \o Tail(X))

\* The registration names of a phased config are on<X> and on<X>Capture,
\* and the config has no direct registration name.
IsPhasedConfigOf(config, capitalized) ==
    /\ "phasedRegistrationNames" \in DOMAIN config
    /\ DOMAIN config.phasedRegistrationNames = {"bubbled", "captured"}
    /\ config.phasedRegistrationNames.bubbled = "on" \o capitalized
    /\ config.phasedRegistrationNames.captured = "on" \o capitalized \o "Capture"
    /\ "registrationName" \notin DOMAIN config

\* The config of each declared name, as the two tables hold it.
DeclaredConfigsArePhased ==
    /\ \A i \in DOMAIN DeclaredEventTypeNames :
          LET X == DeclaredEventTypeNames[i]
              config == SimpleEventPlugin_eventTypes[text(X)]
          IN /\ IsPhasedConfigOf(config, Capitalized(X))
             /\ config.dependencies = <<"top" \o Capitalized(X)>>
             /\ topLevelEventsToDispatchConfig["top" \o Capitalized(X)] = config
    /\ DOMAIN SimpleEventPlugin_eventTypes =
          {text(DeclaredEventTypeNames[i]) : i \in DOMAIN DeclaredEventTypeNames}
    /\ DOMAIN topLevelEventsToDispatchConfig =
          {"top" \o Capitalized(DeclaredEventTypeNames[i]) :
              i \in DOMAIN DeclaredEventTypeNames}
    /\ IsPhasedConfigOf(SelectEventPlugin_eventTypes.select, "Select")

\* The declared name a top-level type is the key of, or none.
DeclaredNameOf ==
    [top \in DOMAIN topLevelEventsToDispatchConfig |->
        {i \in DOMAIN DeclaredEventTypeNames :
            "top" \o Capitalized(DeclaredEventTypeNames[i]) = top}]

\* C14: every event name X of the classifier's two lists, and select, has a
\* config whose phased registration names are on<X> and on<X>Capture and
\* which has no direct registration name; a classifier config depends on
\* top<X> alone and is the config stored under top<X>, the one an event
\* extracted for that top-level type carries.
C14_PhasedRegistrationNames ==
    /\ DeclaredConfigsArePhased
    /\ (pc = "done" /\ ret # <<>>)
          => /\ args.topLevelType \in DOMAIN DeclaredNameOf
             /\ \E i \in DeclaredNameOf[args.topLevelType] :
                   LET X == DeclaredEventTypeNames[i]
                   IN /\ ret[1].dispatchConfig = SimpleEventPlugin_eventTypes[text(X)]
                      /\ IsPhasedConfigOf(ret[1].dispatchConfig, Capitalized(X))

\* The event extracted for a double click carries the config of doubleClick.
C14_Witness ==
    /\ pc = "done"
    /\ args.topLevelType = "topDoubleClick"
    /\ Len(ret) = 1
    /\ ret[1].dispatchConfig.phasedRegistrationNames =
          [bubbled |-> "onDoubleClick", captured |-> "onDoubleClickCapture"]
    /\ ret[1].dispatchConfig.dependencies = <<"topDoubleClick">>
    /\ ret[1].dispatchConfig = SimpleEventPlugin_eventTypes.doubleClick



\* The top-level types the switch of extractEvents has a case for.
ShapeCases ==
    {"topKeyPress", "topKeyDown", "topKeyUp", "topBlur", "topFocus", "topClick",
     "topDoubleClick", "topMouseDown", "topMouseMove", "topMouseUp", "topMouseOut",
     "topMouseOver", "topContextMenu", "topDrag", "topDragEnd", "topDragEnter",
     "topDragExit", "topDragLeave", "topDragOver", "topDragStart", "topDrop",
     "topTouchCancel", "topTouchEnd", "topTouchMove", "topTouchStart",
     "topAnimationEnd", "topAnimationIteration", "topAnimationStart",
     "topTransitionEnd", "topScroll", "topWheel", "topCopy", "topCut", "topPaste"}

IsGenericEvent(events) ==
    /\ Len(events) = 1
    /\ events[1].shape = "SyntheticEvent"
    /\ events[1].type = args.nativeEvent.type
    /\ events[1].target = args.nativeEventTarget

\* C15 as stated: for every top-level type the switch has no case for,
\* whether the classifier has a config for it or not, the call returns an
\* event of the generic shape.
C15_UnrecognisedKindGetsGenericEvent ==
    (pc = "done" /\ args.topLevelType \notin ShapeCases) => IsGenericEvent(ret)

\* C15, amended: the call ends for every top-level type; for a type with a
\* config and no case of the switch it returns one event of the generic
\* shape, carrying that config; for a type the table has no entry for it
\* returns no event.
C15_GenericShapeOnlyWithConfig ==
    pc = "done" =>
        /\ Len(ret) <= 1
        /\ (/\ args.topLevelType \notin ShapeCases
            /\ args.topLevelType \in DOMAIN topLevelEventsToDispatchConfig)
              => /\ IsGenericEvent(ret)
                 /\ ret[1].dispatchConfig =
                       topLevelEventsToDispatchConfig[args.topLevelType]
        /\ args.topLevelType \notin DOMAIN topLevelEventsToDispatchConfig
              => ret = <<>>

\* An input event: a config, no case, the generic shape.
C15_Witness ==
    /\ pc = "done"
    /\ args.topLevelType = "topInput"
    /\ Len(ret) = 1
    /\ ret[1].shape = "SyntheticEvent"
    /\ ret[1].dispatchConfig.phasedRegistrationNames.bubbled = "onInput"



\* ---------------------------------------------------------------------
\* Further claims on the selection plugin
\* ---------------------------------------------------------------------

\* The top-level types on which the plugin attempts an emission.
EmissionTypes ==
    {"topContextMenu", "topMouseUp", "topSelectionChange", "topKeyDown", "topKeyUp"}

\* The guard of constructSelectEvent as the call of this step finds it: the
\* pressed flag is the one the step leaves behind (a pointer-up has reset
\* it before the check); a step that attempts an emission changes neither
\* the recorded element nor the platform's active element.
GuardPasses ==
    /\ ~mouseDown'
    /\ activeElement # Null
    /\ docActiveElement = activeElement

\* The step is a call of extractEvents; its top-level type; whether it
\* passes the listener gate.
IsCall == call'.op = "extractEvents"

CallPassesGate == call'.hasDocument /\ listening

IsPassingAttempt ==
    /\ IsCall
    /\ CallPassesGate
    /\ call'.topLevelType \in EmissionTypes
    /\ ~(call'.topLevelType = "topSelectionChange" /\ skipSelectionChangeEvent)
    /\ GuardPasses

\* C17: an attempt that passes the guard returns an event exactly when the
\* fresh snapshot is not structurally equal to the last one, and replaces
\* the last snapshot by the fresh one exactly when it returns an event; of
\* two attempts in a row, with nothing happening in between, at most one
\* returns an event.  This for every form of snapshot: a caret range, an
\* anchor/focus pair, or none at all.
C17_EventIffSnapshotChanged ==
    [][IsPassingAttempt
         => LET fresh == getSelection(activeElement)
            IN /\ (ret' # <<>>) <=> ~shallowEqual(lastSelection, fresh)
               /\ lastSelection' = (IF ret' # <<>> THEN fresh ELSE lastSelection)
               /\ (call.op = "extractEvents" /\ ret # <<>>) => ret' = <<>>]_vars



TextEditable == {node \in Nodes : isTextInputElement(node) \/ contentEditable(node)}

\* The trail is a focus-in on E followed by pointer-downs and selection
\* changes and then by a pointer-up, the first one since the focus-in.
FirstPointerUpSinceFocusIn(E) ==
    /\ Len(trail) >= 2
    /\ trail[1] = FocusIn(E)
    /\ trail[Len(trail)] = PointerUp
    /\ \A n \in 2..(Len(trail) - 1) : trail[n] # PointerUp

\* C18: a focus-in on a text-editable element that passes the listener gate
\* records the element and its instance and clears the snapshot, returning
\* no event.  While the snapshot is clear, an attempt that passes the guard
\* returns a select event for the recorded element whatever the selection
\* is, and nothing but such an attempt sets the snapshot; so the first
\* pointer-up after the focus-in, with the element the platform's active
\* element, returns a select event for it.
C18_FocusInClearsSnapshot ==
    /\ [](\A E \in TextEditable :
             (FirstPointerUpSinceFocusIn(E) /\ docActiveElement = E)
                => IsSelectEventFor(ret, E))
    /\ [][/\ (/\ IsCall
              /\ CallPassesGate
              /\ call'.topLevelType = "topFocus"
              /\ call'.focusTarget \in TextEditable)
                => /\ activeElement' = call'.focusTarget
                   /\ activeElementInst' = InstOf(call'.focusTarget)
                   /\ lastSelection' = NullObject
                   /\ ret' = <<>>
          /\ (IsPassingAttempt /\ lastSelection = NullObject)
                => /\ IsSelectEventFor(ret', activeElement)
                   /\ lastSelection' = getSelection(activeElement)
          /\ (lastSelection = NullObject /\ lastSelection' # NullObject)
                => IsPassingAttempt]_vars

\* The contentEditable element was focused again and the pointer released:
\* a select event for it, the snapshot being the selection as it is.
C18_Witness ==
    /\ trail = <<FocusIn("E2"), PointerUp>>
    /\ docActiveElement = "E2"
    /\ platform = "modern"
    /\ call.topLevelType = "topMouseUp"
    /\ IsSelectEventFor(ret, "E2")
    /\ lastSelection.focusOffset = windowSelection.focusOffset



\* C19: a focus-in on a target that is not text-editable, a target with no
\* instance included, changes neither the recorded element, nor its
\* instance, nor the snapshot, nor the pressed flag, and returns no event;
\* a recorded element is replaced or dropped only by a focus-out or by a
\* focus-in on a text-editable target, which then is the recorded one.
C19_FocusInElsewhereChangesNothing ==
    [][/\ (/\ IsCall
           /\ call'.topLevelType = "topFocus"
           /\ call'.focusTarget \notin TextEditable)
             => /\ UNCHANGED <<activeElement, activeElementInst, lastSelection,
                               mouseDown>>
                /\ ret' = <<>>
       /\ (activeElement # Null /\ activeElement' # activeElement)
             => /\ IsCall
                /\ \/ call'.topLevelType = "topBlur" /\ activeElement' = Null
                   \/ /\ call'.topLevelType = "topFocus"
                      /\ call'.focusTarget \in TextEditable
                      /\ activeElement' = call'.focusTarget]_vars

\* The text input is recorded, with a snapshot, and the pointer is pressed;
\* a focus-in on the plain element D has just been processed.
C19_Witness ==
    /\ call.op = "extractEvents"
    /\ call.topLevelType = "topFocus"
    /\ call.focusTarget = "D"
    /\ listening
    /\ activeElement = "E1"
    /\ activeElementInst = InstOf("E1")
    /\ lastSelection = [start |-> 0, end |-> 1]
    /\ mouseDown
    /\ ret = <<>>



\* C20: a call whose native target has no document, or made while onSelect
\* is not listened to, returns no event whatever the top-level type, and
\* leaves the recorded element, its instance, the snapshot and the pressed
\* flag as they were: a pointer-up does not reset the flag, a focus-out does
\* not drop the element.
C20_ListenerGate ==
    [][(IsCall /\ ~CallPassesGate)
         => /\ ret' = <<>>
            /\ UNCHANGED <<activeElement, activeElementInst, lastSelection, mouseDown>>]_vars

\* A pointer-up on a target without a document, the text input recorded and
\* the pointer pressed: the flag stays set.
C20_Witness ==
    /\ call.op = "extractEvents"
    /\ call.topLevelType = "topMouseUp"
    /\ ~call.hasDocument
    /\ listening
    /\ mouseDown
    /\ activeElement = "E1"
    /\ docActiveElement = "E1"
    /\ lastSelection = NullObject
    /\ ret = <<>>


\* ---------------------------------------------------------------------
\* C12: a listener throws
\* ---------------------------------------------------------------------

\* An instance with every declared field at its default, whatever was
\* assigned to it under other names and whichever object it is.
HasDefaultFields(instance) ==
    [instance EXCEPT !.adhoc = Null, !.id = 1] = New(instance.shape)

\* C12: when a listener throws, the exception is the caller's and the
\* dispatch is over with that listener; every event of the batch that is not
\* persistent has been released: it is no longer marked as handed out, its
\* declared fields are at their defaults and it is back in its shape's pool,
\* so that every instance the next dispatch can acquire has default fields.
C12_ThrowStillReleases ==
    /\ [](thrown =>
            /\ cur = NotDispatching
            /\ queue = <<>>
            /\ Len(released) = Len(acquired)
            /\ \A j \in DOMAIN released :
                  ~released[j].before.persistent
                     => /\ ~released[j].after.pooled
                        /\ HasDefaultFields(released[j].after)
                        /\ \E k \in DOMAIN pool[released[j].before.shape] :
                              pool[released[j].before.shape][k] = released[j].after
            /\ \A shape \in Shapes : \A k \in DOMAIN pool[shape] :
                  HasDefaultFields(pool[shape][k]) /\ ~pool[shape][k].pooled)
    /\ [][(thrown' /\ cur # NotDispatching)
            => /\ invoked' = Append(invoked, listenerAt(cur))
               /\ \A shape \in Shapes :
                     Len(pool'[shape]) = Len(pool[shape])
                        + Cardinality({j \in DOMAIN released' :
                                          /\ released'[j].before.shape = shape
                                          /\ ~released'[j].before.persistent})]_vars

\* The bubble listener of a select event threw after the capture listener
\* had run: the pointer-up's mouse event and the select event, both built on
\* instances used before, are back in their pools.
C12_Witness ==
    /\ thrown
    /\ native.topLevelType = "topMouseUp"
    /\ Len(released) = 2
    /\ native.reused = {"SyntheticMouseEvent", "SyntheticEvent"}
    /\ \A j \in {1, 2} : ~released[j].before.persistent
    /\ released[2].before.type = "select"
    /\ Len(invoked) = 3
    /\ pool["SyntheticMouseEvent"] # <<>> /\ pool["SyntheticEvent"] # <<>>


\* ---------------------------------------------------------------------
\* C13: a listener dispatches
\* ---------------------------------------------------------------------

\* The places of the events in flight: level 0 is the batch being
\* dispatched, level n the n-th suspended batch.
Slots ==
    {<<0, i>> : i \in DOMAIN queue}
        \cup UNION {{<<n, i>> : i \in DOMAIN stack[n].queue} : n \in DOMAIN stack}

EventAt(slot) ==
    IF slot[1] = 0 THEN queue[slot[2]] ELSE stack[slot[1]].queue[slot[2]]

SameInstance(e, f) == e.pooled /\ f.pooled /\ e.shape = f.shape /\ e.id = f.id

\* The step that ends a dispatch made by a listener.
InnerReturns == Len(stack') < Len(stack)

\* C13: an instance is in flight in one batch at most, and no pool holds an
\* instance that is in flight; a dispatch made by a listener leaves the
\* suspended batches as they are while it runs, and, when it ends, adds to
\* the pools only instances of its own events, released, while the
\* listener's batch goes on from where it stopped with every event as it
\* was when the inner dispatch began.
C13_NestedDispatchLeavesOuterBatch ==
    /\ [](/\ \A s, t \in Slots : s # t => ~SameInstance(EventAt(s), EventAt(t))
          /\ \A s \in Slots :
                \A k \in DOMAIN pool[EventAt(s).shape] :
                    EventAt(s).pooled => pool[EventAt(s).shape][k].id # EventAt(s).id)
    /\ [][/\ Len(stack') > Len(stack) =>
                /\ Tail(stack') = stack
                /\ Head(stack').queue = queue
                /\ Head(stack').cur = cur
          /\ Len(stack') = Len(stack) => stack' = stack
          /\ InnerReturns =>
                /\ stack' = Tail(stack)
                /\ queue' = Head(stack).queue
                /\ cur' = Head(stack).cur
                /\ \A shape \in Shapes :
                      /\ IsPrefix(pool[shape], pool'[shape])
                      /\ \A k \in (Len(pool[shape]) + 1)..Len(pool'[shape]) :
                            \E j \in DOMAIN released' :
                                /\ ~released'[j].before.persistent
                                /\ released'[j].after = pool'[shape][k]
                                /\ \E i \in DOMAIN queue :
                                      SameInstance(queue[i], released'[j].before)]_vars

\* The capture listener of a focus-in prevented the default, the bubble
\* listener moved the focus, and the dispatch of that second focus-in is
\* over: its event, built on another instance, is back in the pool, and the
\* first event is as the capture listener left it.
C13_Witness ==
    /\ running
    /\ stack = <<>>
    /\ Len(queue) = 1 /\ Len(released) = 1
    /\ queue[1].shape = "SyntheticFocusEvent"
    /\ released[1].before.shape = "SyntheticFocusEvent"
    /\ released[1].before.id # queue[1].id
    /\ ~released[1].before.persistent
    /\ queue[1].ext.relatedTarget = "E2"
    /\ released[1].before.ext.relatedTarget = Null
    /\ queue[1].defaultPrevented
    /\ cur.entry = 2
    /\ "SyntheticFocusEvent" \in native.reused


\* ---------------------------------------------------------------------
\* C27: the selection plugin's state
\* ---------------------------------------------------------------------

\* C27: in every state the extractEvents calls can reach, the recorded
\* element is null exactly when its recorded instance is null, and the
\* snapshot is not null only while an element is recorded.
C27_SelectStateInvariant ==
    /\ (activeElement = Null) <=> (activeElementInst = Null)
    /\ lastSelection # NullObject => activeElement # Null

\* A call has just taken a snapshot of the recorded text input's selection
\* and returned a select event.
C27_Witness ==
    /\ call # NoCall
    /\ ret # <<>>
    /\ activeElement = "E1"
    /\ activeElementInst = InstOf("E1")
    /\ lastSelection \in RangeValues


\* ---------------------------------------------------------------------
\* C22: the dependencies declared for select
\* ---------------------------------------------------------------------

DeclaredSelectDependencies ==
    {SelectEventPlugin_eventTypes.select.dependencies[i] :
        i \in DOMAIN SelectEventPlugin_eventTypes.select.dependencies}

\* The call of this step changed the plugin's state or returned an event.
CallHadEffect ==
    \/ ret' # <<>>
    \/ <<activeElement, activeElementInst, lastSelection, mouseDown>>'
          # <<activeElement, activeElementInst, lastSelection, mouseDown>>

\* C22: a call of extractEvents that changes one of the four state
\* variables or returns an event is a call for one of the declared
\* dependencies (focus, blur, mouse-down, mouse-up, context-menu, key-down,
\* key-up, selection-change); for every other kind nothing is returned and
\* the state is left as it was.
C22_DependenciesCoverEveryEffect ==
    /\ [][(IsCall /\ CallHadEffect)
            => call'.topLevelType \in DeclaredSelectDependencies]_vars
    /\ [][(IsCall /\ call'.topLevelType \notin DeclaredSelectDependencies)
            => /\ ret' = <<>>
               /\ UNCHANGED <<activeElement, activeElementInst, lastSelection,
                              mouseDown>>]_vars

\* An input event, which is not a dependency, reached the plugin while the
\* recorded text input had a selection not yet reported: nothing came back.
C22_Witness ==
    /\ call # NoCall
    /\ call.topLevelType = "topInput"
    /\ call.hasDocument /\ listening
    /\ ret = <<>>
    /\ activeElement = "E1" /\ docActiveElement = "E1"
    /\ ~mouseDown
    /\ lastSelection # NullObject
    /\ lastSelection # getSelection("E1")


\* ---------------------------------------------------------------------
\* C21: the listener check against the plugin without it
\* ---------------------------------------------------------------------

\* C21: once the document listens for onSelect, every call of extractEvents
\* returns what the plugin without the listener check, fed with the same
\* calls from the start, returns.
C21_ListenerCheckOnlySkipsWork ==
    [][(IsCall /\ listening) => ret' = ungated'.ret]_vars


\* ---------------------------------------------------------------------
\* C23: the classifier's shape for each native kind
\* ---------------------------------------------------------------------

\* The fixed mapping from families to native kinds.
FamilyKinds ==
    [SyntheticKeyboardEvent |-> {"topKeyPress", "topKeyDown", "topKeyUp"},
     SyntheticFocusEvent |-> {"topBlur", "topFocus"},
     SyntheticMouseEvent |-> {"topClick", "topDoubleClick", "topMouseDown",
                              "topMouseMove", "topMouseUp", "topMouseOut",
                              "topMouseOver", "topContextMenu"},
     SyntheticDragEvent |-> {"topDrag", "topDragEnd", "topDragEnter", "topDragExit",
                             "topDragLeave", "topDragOver", "topDragStart", "topDrop"},
     SyntheticTouchEvent |-> {"topTouchCancel", "topTouchEnd", "topTouchMove",
                              "topTouchStart"},
     SyntheticAnimationEvent |-> {"topAnimationEnd", "topAnimationIteration",
                                  "topAnimationStart"},
     SyntheticTransitionEvent |-> {"topTransitionEnd"},
     SyntheticUIEvent |-> {"topScroll"},
     SyntheticWheelEvent |-> {"topWheel"},
     SyntheticClipboardEvent |-> {"topCopy", "topCut", "topPaste"}]

FamilyOf(topLevelType) ==
    IF \E shape \in DOMAIN FamilyKinds : topLevelType \in FamilyKinds[shape]
    THEN CHOOSE shape \in DOMAIN FamilyKinds : topLevelType \in FamilyKinds[shape]
    ELSE "SyntheticEvent"

\* The call's native kind has a config and neither filter discards it.
Classified ==
    /\ args.topLevelType \in DOMAIN topLevelEventsToDispatchConfig
    /\ ~(args.topLevelType = "topKeyPress" /\ getEventCharCode(args.nativeEvent) = 0)
    /\ ~(args.topLevelType = "topClick" /\ args.nativeEvent.button = 2)

\* C23: for every native kind with a config that the key-press and click
\* filters let through, the classifier returns exactly one event, of the
\* family shape the fixed mapping gives the kind (the base shape for a kind
\* of no family), carrying the kind's config, built from the call's
\* arguments and with its capture-then-bubble listeners accumulated; a
\* mouse kind other than topClick yields its event with button 2 as well.
C23_ShapeIsAFunctionOfTheKind ==
    (pc = "done" /\ Classified)
        => /\ Len(ret) = 1
           /\ ret[1].shape = FamilyOf(args.topLevelType)
           /\ ret[1].dispatchConfig = topLevelEventsToDispatchConfig[args.topLevelType]
           /\ ret[1]._targetInst = args.targetInst
           /\ ret[1].nativeEvent = args.nativeEvent
           /\ ret[1].target = args.nativeEventTarget
           /\ ret[1] = accumulateTwoPhaseDispatches(ret[1])

\* A pointer-down with the right button on B: one mouse event carrying the
\* mouse-down config.
C23_Witness ==
    /\ pc = "done"
    /\ args.topLevelType = "topMouseDown"
    /\ args.nativeEvent.button = 2
    /\ args.targetInst = InstOf("B")
    /\ Len(ret) = 1
    /\ ret[1].shape = "SyntheticMouseEvent"
    /\ ret[1].dispatchConfig.phasedRegistrationNames.bubbled = "onMouseDown"


\* ---------------------------------------------------------------------
\* C24: interactive and non-interactive top-level types
\* ---------------------------------------------------------------------

InteractiveKinds ==
    {"top" \o Capitalized(interactiveEventTypeNames[i]) :
        i \in DOMAIN interactiveEventTypeNames}

NonInteractiveKinds ==
    {"top" \o Capitalized(nonInteractiveEventTypeNames[i]) :
        i \in DOMAIN nonInteractiveEventTypeNames}

\* No name is listed twice, in one list or across the two, and no two names
\* give the same top-level type: every key of the two tables is assigned
\* once.
EachKeyAssignedOnce ==
    /\ {text(interactiveEventTypeNames[i]) : i \in DOMAIN interactiveEventTypeNames}
          \cap {text(nonInteractiveEventTypeNames[i]) :
                   i \in DOMAIN nonInteractiveEventTypeNames} = {}
    /\ InteractiveKinds \cap NonInteractiveKinds = {}
    /\ \A i, j \in DOMAIN simpleAssignments :
          i # j => /\ simpleAssignments[i].event # simpleAssignments[j].event
                   /\ simpleAssignments[i].topEvent # simpleAssignments[j].topEvent

\* C24: isInteractiveTopLevelEventType returns true exactly for the
\* top-level types top<X> of the names X of the interactive list; it returns
\* false for those of the non-interactive list and for a type without a
\* config; the two lists share no name and no top-level type, and no key is
\* assigned twice.
C24_InteractiveExactlyForInteractiveNames ==
    /\ EachKeyAssignedOnce
    /\ pc = "done"
          => /\ interactive <=> args.topLevelType \in InteractiveKinds
             /\ args.topLevelType \in NonInteractiveKinds => ~interactive
             /\ args.topLevelType \notin DOMAIN topLevelEventsToDispatchConfig
                   => ~interactive

\* Asked about the pointer-move type, of the non-interactive list, the
\* function has answered false.
C24_Witness ==
    /\ pc = "done"
    /\ args.topLevelType = "topMouseMove"
    /\ interactive = FALSE
    /\ topLevelEventsToDispatchConfig["topMouseMove"].isInteractive = FALSE


\* ---------------------------------------------------------------------
\* C25: the simulators follow the registry
\* ---------------------------------------------------------------------

\* The step is a call of a wrapped injection function that succeeds.
WrappedCallSucceeds == wrapped /\ lastCall' # lastCall /\ lastCall'.ok

\* C25: once ReactTestUtils is loaded, and after every injection call made
\* through its wrappers that succeeds, Simulate has one key for each logical
\* name of the registry and no other; a wrapped call has the registry
\* changed by the original function and builds the simulators from the
\* registry so changed.
C25_SimulateKeysFollowRegistry ==
    /\ []((wrapped /\ lastCall.op # "none" /\ lastCall.ok)
            => Simulate = DOMAIN registry.eventNameDispatchConfigs)
    /\ [][WrappedCallSucceeds
            => /\ lastCall'.before = registry
               /\ registry' =
                    (IF lastCall'.op = "injectEventPluginOrder"
                     THEN injectEventPluginOrder(registry, lastCall'.arg)
                     ELSE injectEventPluginsByName(registry, lastCall'.arg)).registry
               /\ Simulate' = DOMAIN registry'.eventNameDispatchConfigs]_vars

\* A test has injected TapEventPlugin through the wrapper: touchTap, which
\* had no simulator before the call, has one.
C25_Witness ==
    /\ wrapped
    /\ lastCall.op = "injectEventPluginsByName"
    /\ lastCall.ok
    /\ "touchTap" \in DOMAIN registry.eventNameDispatchConfigs
    /\ "touchTap" \notin DOMAIN lastCall.before.eventNameDispatchConfigs
    /\ "touchTap" \in Simulate
    /\ "touchTap" \notin lastCall.beforeSimulate
    /\ "click" \in Simulate


----------------------------------------------------------------------------
\* The selection plugin's own state.
SelectState == <<activeElement, activeElementInst, lastSelection, mouseDown>>

\* The step that starts a batch for an event that came in through `entry`.
Starts(entry) ==
    /\ cur = NotDispatching
    /\ native' # NullObject
    /\ native'.entry = entry

\* C28: the selection plugin's state changes only where extractEvents runs.
\* A step that changes the focused element, the snapshot or the pressed flag
\* is the start of a dispatch that came in through the host entry point,
\* from the browser or from SimulateNative; no listener invocation and no
\* Simulate call changes them.  Simulate.<event> builds one persisted event
\* with its listener chain accumulated and runs it as a batch of its own:
\* the plugin's state and its last return are what they were and no pool is
\* touched (Simulate.mouseDown leaves the pressed flag alone).
\* SimulateNative.<event> does drive the transitions: mouse-down sets the
\* pressed flag, mouse-up clears it, focus on a text input records it and
\* forgets the snapshot, blur forgets both.
C28_StateChangesOnlyInExtractEvents ==
    /\ [][SelectState' # SelectState
             => Starts("dispatch") \/ Starts("simulateNative")]_vars
    /\ [][Starts("simulate")
             => /\ SelectState' = SelectState
                /\ ret' = ret
                /\ pool' = pool
                /\ Len(acquired') = 1
                /\ acquired'[1].persistent
                /\ acquired'[1] = makeSimulator(native'.topLevelType,
                                      native'.nativeEventTarget, Null)]_vars
    /\ [][Starts("simulateNative")
             => LET type == native'.topLevelType
                    node == native'.nativeEventTarget
                IN /\ type = "topMouseDown" => mouseDown'
                   /\ type = "topMouseUp" => ~mouseDown'
                   /\ type = "topFocus"
                         => /\ activeElement' = node
                            /\ activeElementInst' = InstOf(node)
                            /\ lastSelection' = NullObject
                   /\ type = "topBlur"
                         => /\ activeElement' = Null
                            /\ activeElementInst' = Null
                            /\ lastSelection' = NullObject]_vars

\* E1 was focused through SimulateNative, and Simulate.mouseDown then ran
\* its onMouseDown listener: the pressed flag is still down.
C28_Witness ==
    /\ native # NullObject
    /\ native.entry = "simulate"
    /\ native.topLevelType = "mouseDown"
    /\ invoked # <<>>
    /\ acquired[1].persistent
    /\ activeElement = "E1"
    /\ ~mouseDown


----------------------------------------------------------------------------
\* ReactTestUtils.findAllInRenderedTree: the walk over a fiber tree.

\* The fibers of the tree are 1..MaxFibers; -n is the alternate of fiber n.
MaxFibers == 4

FiberIds == 1 .. MaxFibers

\* The fibers and their alternates.
AllFibers == {n \in (0 - MaxFibers) .. MaxFibers : n # 0}

\* The other version of a fiber, and the version numbered from 1.
alternate(n) == 0 - n

numbered(n) == IF n < 0 THEN 0 - n ELSE n

\* The version of `m` that is on the side of `n`.
sameSide(n, m) == IF n < 0 THEN 0 - m ELSE m

\* The null fiber, and the null public instance.
NoFiber == 0

\* A fiber that is still mounting: it has no current version yet.
MountingFiber == MaxFibers + 1

\* ReactTypeOfWork: the four kinds the walk applies the test to.
TestedTags == {"HostComponent", "HostText", "ClassComponent", "FunctionalComponent"}

\* The kind of fiber n when it is one of the four.
TagByIndex(n) ==
    CASE n % 4 = 1 -> "ClassComponent"
      [] n % 4 = 2 -> "HostComponent"
      [] n % 4 = 3 -> "FunctionalComponent"
      [] OTHER -> "HostText"

Least(S) == CHOOSE x \in S : \A y \in S : x <= y

\* The parent of every fiber: fiber 1 is the root of the whole tree and
\* the children of a fiber are ordered by their number.
ParentMaps ==
    {p \in [FiberIds -> 0 .. MaxFibers] :
        /\ p[1] = NoFiber
        /\ \A n \in FiberIds \ {1} : p[n] \in 1 .. (n - 1)}

\* The fibers as the walk reads them: child, sibling, tag and stateNode.
\* The fibers in `others` are of another kind (a fragment, a portal, the
\* host root); they and functional components have no instance.  The
\* alternates form a copy of the tree and share the instances.
FiberTree(p, others) ==
    LET tag == [n \in FiberIds |-> IF n \in others THEN "Fragment" ELSE TagByIndex(n)]
        child == [n \in FiberIds |->
                    LET c == {m \in FiberIds : p[m] = n}
                    IN IF c = {} THEN NoFiber ELSE Least(c)]
        sibling == [n \in FiberIds |->
                      LET later == {m \in FiberIds : m > n /\ p[m] = p[n]}
                      IN IF later = {} THEN NoFiber ELSE Least(later)]
    IN [child |-> [n \in AllFibers |-> sameSide(n, child[numbered(n)])],
        sibling |-> [n \in AllFibers |-> sameSide(n, sibling[numbered(n)])],
        tag |-> [n \in AllFibers |-> tag[numbered(n)]],
        stateNode |-> [n \in AllFibers |->
                         IF tag[numbered(n)] \in {"Fragment", "FunctionalComponent"}
                         THEN NoFiber ELSE numbered(n)]]

\* The return pointers before the walk: a current fiber's points to its
\* parent, or each to the alternate of its parent; an alternate's points
\* to the alternate of its parent.
ReturnMaps(p) ==
    {[n \in AllFibers |-> sameSide(n, p[numbered(n)])],
     [n \in AllFibers |-> alternate(p[numbered(n)])]}

\* The test functions: the public instances each answers true for.
Tests ==
    {{}, 0 .. MaxFibers, {i \in 0 .. MaxFibers : i % 2 = 0},
     {i \in 0 .. MaxFibers : i % 2 = 1}}

\* react-reconciler/reflection: the current version of a mounted fiber,
\* null for a fiber that is still mounting.
findCurrentFiberUsingSlowPath(fiber) ==
    IF fiber = MountingFiber THEN NoFiber
    ELSE numbered(fiber)

\* Lines 40-48: the early returns, then node = currentParent and ret = [].
findAllInRenderedFiberTreeInternal ==
    /\ walk.pc = "ready"
    /\ walk' =
         IF walk.fiber = NoFiber
         THEN [walk EXCEPT !.pc = "done"]
         ELSE LET currentParent == findCurrentFiberUsingSlowPath(walk.fiber)
              IN IF currentParent = NoFiber
                 THEN [walk EXCEPT !.pc = "done"]
                 ELSE [walk EXCEPT !.currentParent = currentParent,
                                   !.node = currentParent,
                                   !.ret = <<>>,
                                   !.pc = "loop"]
    /\ UNCHANGED <<selVars, listeners, disabled, clsVars, regVars, dspVars>>

\* Lines 50-61: the test is applied to the public instance of a host, text,
\* class or functional fiber, and the instance is pushed when it passes.
testNode(w) ==
    LET node == w.node
        publicInst == w.tree.stateNode[node]
        seen == [w EXCEPT !.visited = Append(@, node)]
    IN IF w.tree.tag[node] \in TestedTags
       THEN [seen EXCEPT !.tested = Append(@, node),
                         !.ret = IF publicInst \in w.test
                                 THEN Append(@, publicInst) ELSE @]
       ELSE seen

\* The inner loop climbs past the walk's root.
RECURSIVE climb_PastRoot(_, _)
climb_PastRoot(w, node) ==
    IF w.tree.sibling[node] # NoFiber THEN node
    ELSE IF w.returns[node] = NoFiber THEN NoFiber
    ELSE climb_PastRoot(w, w.returns[node])

\* Lines 70-75: the inner loop climbs while the node has no sibling and
\* ends the walk at the root; NoFiber stands for `return ret`.
RECURSIVE climb(_, _)
climb(w, node) ==
    IF w.tree.sibling[node] # NoFiber THEN node
    ELSE IF w.returns[node] = NoFiber \/ w.returns[node] = w.currentParent
         THEN NoFiber
         ELSE climb(w, w.returns[node])

\* Lines 49-78: one turn of the while (true) loop.
WalkFiber ==
    /\ walk.pc = "loop"
    /\ LET w == testNode(walk)
           node == w.node
           child == w.tree.child[node]
       IN walk' =
            IF child # NoFiber
            THEN [w EXCEPT !.returns[child] = node, !.node = child]
            ELSE IF node = w.currentParent
            THEN [w EXCEPT !.pc = "done"]
            ELSE LET last == climb(w, node)
                 IN IF last = NoFiber
                    THEN [w EXCEPT !.pc = "done"]
                    ELSE LET sibling == w.tree.sibling[last]
                         IN [w EXCEPT !.returns[sibling] = w.returns[last],
                                      !.node = sibling]
    /\ UNCHANGED <<selVars, listeners, disabled, clsVars, regVars, dspVars>>

\* A call on a fiber of some tree, on the alternate of one, on a fiber that
\* is mounting, or on null.
FindInit ==
    /\ \E p \in ParentMaps, others \in SUBSET FiberIds, test \in Tests :
         \E returns \in ReturnMaps(p),
            fiber \in ((0 - MaxFibers) .. MaxFibers) \cup {MountingFiber} :
            walk = [tree |-> FiberTree(p, others), returns |-> returns,
                    fiber |-> fiber, test |-> test,
                    currentParent |-> NoFiber, node |-> NoFiber, ret |-> <<>>,
                    pc |-> "ready", visited |-> <<>>, tested |-> <<>>]
    /\ ret = <<>>
    /\ listeners = {}
    /\ disabled = {}
    /\ SelectIdle
    /\ ClassifierIdle
    /\ RegistryIdle
    /\ DispatchIdle

FindNext == findAllInRenderedFiberTreeInternal \/ WalkFiber

\* The loop runs on: nothing else is scheduled during the call.
SpecFind == FindInit /\ [][FindNext]_vars /\ WF_vars(FindNext)


----------------------------------------------------------------------------
\* The fibers of the subtree under `n` in depth-first pre-order, read off
\* the child and sibling pointers: a fiber, then the subtrees of its
\* children from the first child to the last.
RECURSIVE Preorder(_, _)
RECURSIVE PreorderFrom(_, _)
Preorder(tree, n) == <<n>> \o PreorderFrom(tree, tree.child[n])

PreorderFrom(tree, first) ==
    IF first = NoFiber THEN <<>>
    ELSE Preorder(tree, first) \o PreorderFrom(tree, tree.sibling[first])

\* The fibers of `nodes` the test is applied to, and the public instances
\* of those it answers true for.
OfTestedKind(w, nodes) == SelectSeq(nodes, LAMBDA n : w.tree.tag[n] \in TestedTags)

Passing(w, nodes) ==
    LET passed == SelectSeq(OfTestedKind(w, nodes),
                            LAMBDA n : w.tree.stateNode[n] \in w.test)
    IN [i \in DOMAIN passed |-> w.tree.stateNode[passed[i]]]

\* C26: findAllInRenderedFiberTreeInternal terminates on every finite fiber
\* tree.  It goes through the fibers of the subtree under the current fiber
\* one by one in depth-first pre-order, each exactly once: what it has
\* visited is at every moment the beginning of that order, so never a
\* sibling or an ancestor of the root of the walk, and it is the whole
\* order when the function returns.  The test is applied, in that order, to
\* the public instance of each host, text, class and functional fiber
\* visited, and the result is, in that order, the public instances for
\* which the test returned true.  A null fiber or a fiber with no current
\* version gives the empty result.
C26_WalkIsPreorderOfSubtree ==
    /\ [](walk.pc \in {"loop", "done"} =>
            IF walk.currentParent = NoFiber
            THEN walk.pc = "done" /\ walk.visited = <<>> /\ walk.ret = <<>>
            ELSE LET order == Preorder(walk.tree, walk.currentParent)
                 IN /\ walk.currentParent = findCurrentFiberUsingSlowPath(walk.fiber)
                    /\ IsPrefix(walk.visited, order)
                    /\ \A i, j \in DOMAIN walk.visited :
                          i # j => walk.visited[i] # walk.visited[j]
                    /\ walk.pc = "done" => walk.visited = order
                    /\ walk.tested = OfTestedKind(walk, walk.visited)
                    /\ walk.ret = Passing(walk, walk.visited))
    /\ <>(walk.pc = "done")

\* The walk from fiber 2, whose parent is fiber 1 and whose later sibling is
\* fiber 4, with a test that accepts everything: fiber 2 and its child, a
\* functional component, were tested and nothing else was.
C26_Witness ==
    /\ walk.pc = "done"
    /\ walk.currentParent = 2
    /\ walk.tree.sibling[2] = 4
    /\ walk.tree.child[2] = 3
    /\ walk.tree.tag[3] = "FunctionalComponent"
    /\ walk.tested = <<2, 3>>
    /\ walk.ret = <<2, NoFiber>>

=============================================================================
